---- MODULE Spec2Model ----
(***************************************************************************)
(* Step-execution engine of the document-processing workflow runner:       *)
(* handle_task (celery_worker/celery_task.py) drives the ordered steps of  *)
(* one run, execute_step (celery_worker/step_handler.py) dispatches one    *)
(* step: registry lookup, rerun hydration, required-key resolution, the    *)
(* backend call plan and the business function.                            *)
(*                                                                         *)
(* Conventions of the model                                                *)
(*   - a step name is the sequence of its "_"-separated words, so that the *)
(*     suffix match of get_step_name and the substring match of            *)
(*     get_context_api are computed, not looked up;                        *)
(*   - Python None is "None" for strings, NoName for names, a record of    *)
(*     kind "none" for objects, and the empty set for an optional list     *)
(*     (a list l is {l});                                                  *)
(*   - a dict that the code iterates in insertion order is a sequence of   *)
(*     [key, value] pairs.                                                 *)
(***************************************************************************)
EXTENDS Integers, Sequences, FiniteSets, TLC

\* Longest workflow (number of steps) of a run.
MaxSteps == 3

None == "None"
NoName == <<>>

\* models/class_models.py StatusEnum
SUCCESS == "SUCCESS"
FAILED == "FAILED"
CANCEL == "CANCEL"
PROCESSING == "PROCESSING"
StatusEnum == {SUCCESS, FAILED, CANCEL, PROCESSING}

\* models/class_models.py DocumentType
DocumentType == {"order", "master_data"}

-----------------------------------------------------------------------------
(* Sequences and insertion-ordered dicts *)

Range(s) == {s[i] : i \in DOMAIN s}
Min(S) == CHOOSE x \in S : \A y \in S : x <= y

\* s.endswith(suf) on words
EndsWith(s, suf) ==
    /\ Len(suf) <= Len(s)
    /\ SubSeq(s, Len(s) - Len(suf) + 1, Len(s)) = suf

\* sub in s (contiguous) on words
Contains(s, sub) ==
    \E i \in 0..(Len(s) - Len(sub)) : SubSeq(s, i + 1, i + Len(sub)) = sub

\* d.get(k) / k in d / d[k] = v for an insertion-ordered dict
DictHas(d, k) == \E i \in DOMAIN d : d[i].key = k
DictGet(d, k) == d[Min({i \in DOMAIN d : d[i].key = k})].value
DictSet(d, k, v) ==
    IF DictHas(d, k)
    THEN [i \in DOMAIN d |-> IF d[i].key = k THEN [key |-> k, value |-> v] ELSE d[i]]
    ELSE Append(d, [key |-> k, value |-> v])
DictKeys(d) == {d[i].key : i \in DOMAIN d}

-----------------------------------------------------------------------------
(* Step names *)

TEMPLATE_FILE_PARSE == <<"TEMPLATE", "FILE", "PARSE">>
TEMPLATE_FORMAT_VALIDATION == <<"TEMPLATE", "FORMAT", "VALIDATION">>
TEMPLATE_DATA_MAPPING == <<"TEMPLATE", "DATA", "MAPPING">>
TEMPLATE_PUBLISH_DATA == <<"TEMPLATE", "PUBLISH", "DATA">>
RULE_MP_SUBMIT == <<"[RULE_MP]", "SUBMIT">>
FILE_PARSE == <<"FILE", "PARSE">>
\* names a backend workflow may carry that are no registry key
CUSTOMER_SUBMIT == <<"CUSTOMER", "3", "SUBMIT">>
NOT_DEFINED_STEP == <<"NOT", "DEFINED", "STEP">>

\* words of the form "[...]": step_key.startswith("[") and "]_" in step_key
BracketWords == {"[RULE_MP]"}

\* processors/processor_nodes.py PROCESS_DEFINITIONS: the registry keys in
\* declaration order, and each key's StepDefinition.
RegistryKeys ==
    << TEMPLATE_FILE_PARSE, TEMPLATE_FORMAT_VALIDATION, TEMPLATE_DATA_MAPPING,
       TEMPLATE_PUBLISH_DATA, RULE_MP_SUBMIT, FILE_PARSE >>

StepDefinition(fn, din, dout, kw) ==
    [function_name |-> fn, data_input |-> din, data_output |-> dout, kwargs |-> kw]

PROCESS_DEFINITIONS ==
    (TEMPLATE_FILE_PARSE :>
        StepDefinition("parse_file_to_json", None, "parsed_data", <<>>)) @@
    (TEMPLATE_FORMAT_VALIDATION :>
        StepDefinition("template_format_validation", "parsed_data", "validated_data", <<>>)) @@
    (TEMPLATE_DATA_MAPPING :>
        StepDefinition("template_data_mapping", "validated_data", "mapped_data", <<>>)) @@
    (TEMPLATE_PUBLISH_DATA :>
        StepDefinition("publish_data", "mapped_data", "published_data",
                       <<[key |-> "connectionDto", value |-> None]>>)) @@
    (RULE_MP_SUBMIT :>
        StepDefinition("submit", "mapped_data", "submitted_data", <<>>)) @@
    (FILE_PARSE :>
        StepDefinition("file_parse", None, "file_data", <<>>))

IsRegistered(name) == name \in Range(RegistryKeys)

\* Every method the workflow-processor modules can bind onto the processor.
AllFunctions ==
    {PROCESS_DEFINITIONS[k].function_name : k \in Range(RegistryKeys)} \cup {"copy_file"}

\* utils/common_utils.py get_step_name: exact match first, then the first
\* dynamic key "[...]_SUFFIX" whose suffix the name ends with, else None.
IsDynamicKey(k) == Len(k) >= 2 /\ k[1] \in BracketWords
DynamicMatches(step_name) ==
    {i \in DOMAIN RegistryKeys :
        /\ IsDynamicKey(RegistryKeys[i])
        /\ EndsWith(step_name, Tail(RegistryKeys[i]))}

\* A lookup without the exact-match case.
get_step_name_DynamicOnly(step_name) ==
    IF DynamicMatches(step_name) # {}
    THEN RegistryKeys[Min(DynamicMatches(step_name))]
    ELSE NoName

get_step_name(step_name) ==
    IF step_name \in Range(RegistryKeys) THEN step_name
    ELSE IF DynamicMatches(step_name) # {}
         THEN RegistryKeys[Min(DynamicMatches(step_name))]
         ELSE NoName

\* utils/common_utils.py reverse_step_name: the name that the workflow's step
\* list carries for a canonical registry key (None stays None).
reverse_step_name(canonical, steps) ==
    IF canonical = NoName THEN NoName
    ELSE LET hits == {i \in DOMAIN steps : get_step_name(steps[i].stepName) = canonical}
         IN IF hits = {} THEN canonical ELSE steps[Min(hits)].stepName

-----------------------------------------------------------------------------
(* The call-plan table of get_context_api *)

\* A request URL: the ApiUrl member, and the id the entry's url lambda puts
\* into the path ("/{id}") or into the query ("?templateFileParseId={id}").
NoUrl == [base |-> "", where |-> "", arg |-> ""]
StaticUrl(base) == [base |-> base, where |-> "", arg |-> ""]
PathUrl(base, key) == [base |-> base, where |-> "path", arg |-> key]
QueryUrl(base, key) == [base |-> base, where |-> "query", arg |-> key]

\* One call-plan entry. params and body list [name, key] pairs: the request
\* field `name` is read from required key `key`. extract names the required
\* key the entry's extract lambda updates ("" when it declares none).
Entry(url, method, required_context, params, body, extract) ==
    [url |-> url, method |-> method, required_context |-> required_context,
     params |-> params, body |-> body, extract |-> extract]

P(name, key) == [name |-> name, key |-> key]

WorkflowStepGet ==
    Entry(PathUrl("WORKFLOW_STEP", "workflowStepId"), "get",
          <<"workflowStepId">>, <<>>, <<>>, "")

TemplateParseGet(extract) ==
    Entry(StaticUrl("WORKFLOW_TEMPLATE_PARSE"), "get", <<"workflowStepId">>,
          <<P("workflowStepId", "workflowStepId")>>, <<>>, extract)

step_map ==
    << [key |-> <<"MASTER", "DATA", "FILE", "PARSER">>,
        ctxs |-> << TemplateParseGet("") >>],
       [key |-> <<"MASTER", "DATA", "VALIDATE", "HEADER">>,
        ctxs |-> << Entry(StaticUrl("MASTERDATA_HEADER_VALIDATION"), "get",
                          <<"file_name">>, <<P("fileName", "file_name")>>, <<>>, "") >>],
       [key |-> <<"MASTER", "DATA", "VALIDATE", "DATA">>,
        ctxs |-> << Entry(StaticUrl("MASTERDATA_COLUMN_VALIDATION"), "get",
                          <<"file_name">>, <<P("fileName", "file_name")>>, <<>>, "") >>],
       [key |-> <<"MASTER", "DATA", "LOAD", "DATA">>,
        ctxs |-> << Entry(StaticUrl("MASTER_DATA_LOAD_DATA"), "post",
                          <<"file_name_wo_ext", "items">>, <<>>,
                          <<P("fileName", "file_name_wo_ext"), P("data", "items")>>, "") >>],
       [key |-> TEMPLATE_FILE_PARSE,
        ctxs |-> << TemplateParseGet("") >>],
       [key |-> TEMPLATE_FORMAT_VALIDATION,
        ctxs |-> << TemplateParseGet("templateFileParseId"),
                    Entry(PathUrl("TEMPLATE_FORMAT_VALIDATION", "templateFileParseId"),
                          "get", <<"templateFileParseId">>, <<>>, <<>>, "") >>],
       [key |-> TEMPLATE_DATA_MAPPING,
        ctxs |-> << TemplateParseGet("templateFileParseId"),
                    Entry(QueryUrl("DATA_MAPPING", "templateFileParseId"), "get",
                          <<"templateFileParseId">>,
                          <<P("templateFileParseId", "templateFileParseId")>>, <<>>, "") >>],
       [key |-> TEMPLATE_PUBLISH_DATA,
        ctxs |-> << Entry(PathUrl("WORKFLOW_STEP", "workflowStepId"), "get",
                          <<"workflowStepId">>, <<>>, <<>>, "connectionId"),
                    Entry(NoUrl, "copy_file", <<"fileOutputLink">>, <<>>, <<>>,
                          "fileOutputLink"),
                    Entry(StaticUrl("TEMPLATE_PUBLISH_DATA"), "post",
                          <<"connectionId", "fileOutputLink">>, <<>>,
                          <<P("connectionId", "connectionId"),
                            P("fileOutputLink", "fileOutputLink")>>, "") >>],
       [key |-> <<"[RULE_MP]", "METADATA", "EXTRACT">>, ctxs |-> << WorkflowStepGet >>],
       [key |-> <<"[RULE_MP]", "XSL", "TRANSLATION">>, ctxs |-> << WorkflowStepGet >>],
       [key |-> RULE_MP_SUBMIT, ctxs |-> << WorkflowStepGet >>],
       [key |-> <<"[RULE_MP]", "SEND", "TO">>, ctxs |-> << WorkflowStepGet >>],
       [key |-> <<"[RULE_MP]", "RENAME">>, ctxs |-> << WorkflowStepGet >>] >>

\* The keys every entry of a plan requires, each initially None.
RequiredContext(ctxs) ==
    UNION {Range(ctxs[i].required_context) : i \in DOMAIN ctxs}

\* get_context_api: the first table row whose key is a substring of the
\* (upper-cased) step name, with its required keys all None; None (found =
\* FALSE) when no row matches.
PlanRows(step_name) == {i \in DOMAIN step_map : Contains(step_name, step_map[i].key)}

get_context_api(step_name) ==
    IF PlanRows(step_name) = {}
    THEN [found |-> FALSE, ctxs |-> <<>>, required_keys |-> <<>>]
    ELSE LET ctxs == step_map[Min(PlanRows(step_name))].ctxs
         IN [found |-> TRUE, ctxs |-> ctxs,
             required_keys |-> [k \in RequiredContext(ctxs) |-> None]]

-----------------------------------------------------------------------------
(* Step outputs, documents and backend responses *)

\* StepOutput.data: None, a parsed document model (PODataParsed or
\* MasterDataParsed, extra fields allowed) with its attributes, or a plain dict.
NoData == [kind |-> "none"]
Model(attrs) == [kind |-> "model", attrs |-> attrs]
DictData == [kind |-> "dict"]

\* models/class_models.py StepOutput (step_failure_message: {} is None, {l} the
\* list l), with sub_data the empty dict
StepOutput(data, step_status, step_failure_message) ==
    [kind |-> "StepOutput", data |-> data, sub_data |-> "{}",
     step_status |-> step_status, step_failure_message |-> step_failure_message]

\* A StepOutput built with sub_data={"data_output": data_output}
WithDataOutput(out) == [out EXCEPT !.sub_data = "{data_output}"]

\* The dict a local plan entry (copy_file) returns.
DictResult(fields) == [kind |-> "dict", fields |-> fields]

Ids == {"id1"}

\* A connectionDto the backend holds without its "requiredFields" member.
IncompleteConnection == "incomplete"

\* What BEConnector.get/post return: the "data" member of the reply, or None
\* on a network exception or a non-2xx status.
RespNone == [kind |-> "none"]
RespDict(fields) == [kind |-> "dict", fields |-> fields]
RespList(items) == [kind |-> "list", items |-> items]

WellFormed(base) ==
    CASE base = "WORKFLOW_TEMPLATE_PARSE" ->
            {RespList(<< ("templateFileParse" :> id) >>) : id \in Ids}
      [] base = "WORKFLOW_STEP" ->
            {RespDict("connectionDto" :> c) : c \in Ids \cup {IncompleteConnection}}
      [] base = "TEMPLATE_PUBLISH_DATA" ->
            {RespDict("success" :> "true"),
             RespDict(("success" :> "false") @@ ("message" :> "rejected"))}
      [] OTHER -> {RespDict("success" :> "true")}

\* connections/be_connection.py BEConnector._request: every failure (a
\* network exception, a non-2xx status) is logged and answered with None;
\* otherwise the reply's "data" member is returned.
BEConnector_request(base) == {RespNone} \cup WellFormed(base)

-----------------------------------------------------------------------------
(* Context resolver *)

\* hasattr(step_info.data, key) / getattr(step_info.data, key)
HasAttr(data, key) ==
    \/ data.kind = "model" /\ key \in DOMAIN data.attrs
    \/ data.kind = "dict" /\ key = "items"
GetAttr(data, key) ==
    IF data.kind = "model" THEN data.attrs[key] ELSE "<method items>"

\* One entry of processing_steps answers a key when it is a mapping holding
\* the key, or an object whose .data has the attribute.
InfoHas(step_info, key) ==
    \/ step_info.kind = "dict" /\ key \in DOMAIN step_info.fields
    \/ step_info.kind = "StepOutput" /\ HasAttr(step_info.data, key)
InfoGet(step_info, key) ==
    IF step_info.kind = "dict" THEN step_info.fields[key]
    ELSE GetAttr(step_info.data, key)

\* A resolver that asks the step before the file record.
fill_required_keys_for_request_StepFirst(required, file_record, step, processing_steps) ==
    [key \in DOMAIN required |->
        IF key \in DOMAIN step THEN step[key]
        ELSE IF key \in DOMAIN file_record THEN file_record[key]
        ELSE required[key]]

\* fill_required_keys_for_request: file_record > step > processing_steps
\* (first entry, in insertion order, that answers the key); else unchanged.
fill_required_keys_for_request(required, file_record, step, processing_steps) ==
    [key \in DOMAIN required |->
        IF key \in DOMAIN file_record THEN file_record[key]
        ELSE IF key \in DOMAIN step THEN step[key]
        ELSE LET hits == {i \in DOMAIN processing_steps :
                              InfoHas(processing_steps[i].value, key)}
             IN IF hits = {} THEN required[key]
                ELSE InfoGet(processing_steps[Min(hits)].value, key)]

\* for key, value in mapping.items(): if key in required: required[key] = value
MergeInto(required, fields) ==
    [i \in DOMAIN required |->
        IF required[i].key \in DOMAIN fields
        THEN [key |-> required[i].key, value |-> fields[required[i].key]]
        ELSE required[i]]

RECURSIVE MergeAll(_, _)
MergeAll(required, items) ==
    IF items = <<>> THEN required
    ELSE MergeAll(MergeInto(required, Head(items)), Tail(items))

\* fill_required_keys_from_response: a dict response, or every dict of a list
\* response in order, overwrites the keys of `required` it names; any other
\* response (None) leaves `required` as it is.
fill_required_keys_from_response(response, required) ==
    CASE response.kind = "dict" -> MergeInto(required, response.fields)
      [] response.kind = "list" -> MergeAll(required, response.items)
      [] OTHER -> required

\* An extraction that fills a key only while it is still None.
Extract_FillMissing(extract, resp, required_keys) ==
    [ok |-> TRUE,
     keys |-> IF /\ extract = "templateFileParseId"
                 /\ resp.kind = "list"
                 /\ required_keys["templateFileParseId"] = None
              THEN ("templateFileParseId" :> resp.items[1]["templateFileParse"])
                      @@ required_keys
              ELSE required_keys]

\* The extract lambda of a plan entry, run on the entry's response (or on the
\* local function's result): ok = FALSE when the subscript chain raises.
Extract(extract, resp, required_keys) ==
    CASE extract = "templateFileParseId" ->
            IF resp.kind = "list" /\ resp.items # <<>>
                  /\ "templateFileParse" \in DOMAIN resp.items[1]
            THEN [ok |-> TRUE,
                  keys |-> ("templateFileParseId" :> resp.items[1]["templateFileParse"])
                              @@ required_keys]
            ELSE [ok |-> FALSE, keys |-> required_keys]
      [] extract = "connectionId" ->
            IF resp.kind = "dict" /\ "connectionDto" \in DOMAIN resp.fields
            THEN [ok |-> TRUE,
                  keys |-> ("connectionId" :> resp.fields["connectionDto"]) @@ required_keys]
            ELSE [ok |-> FALSE, keys |-> required_keys]
      [] extract = "fileOutputLink" ->
            IF resp.kind = "dict" /\ "fileOutputLink" \in DOMAIN resp.fields
            THEN [ok |-> TRUE,
                  keys |-> ("fileOutputLink" :> resp.fields["fileOutputLink"])
                              @@ required_keys]
            ELSE [ok |-> FALSE, keys |-> required_keys]
      [] OTHER -> [ok |-> TRUE, keys |-> required_keys]

\* ctx["url"](required_keys), ctx["params"](required_keys), ctx["body"](required_keys)
MakeUrl(url, required_keys) ==
    [base |-> url.base, where |-> url.where,
     arg |-> IF url.where = "" THEN "" ELSE required_keys[url.arg]]
MakeFields(pairs, required_keys) ==
    [i \in DOMAIN pairs |-> [key |-> pairs[i].name, value |-> required_keys[pairs[i].key]]]

\* urlparse(url).path: the host and the query string are dropped.
ShortUrl(url) ==
    [base |-> url.base, where |-> IF url.where = "path" THEN "path" ELSE "",
     arg |-> IF url.where = "path" THEN url.arg ELSE ""]

\* build_schema_object: the items of the first of mapped_data, parsed_data,
\* master_parsed_data present in processing_steps go into a fresh FAILED
\* document of the file's type (None for a file that is neither an order nor
\* master data). ok = FALSE when `parse_step.data.items` does not yield the
\* items of a document (data is None or not a document model): it raises.
ParseStepKeys == <<"mapped_data", "parsed_data", "master_parsed_data">>
ParseStepHits(processing_steps) ==
    {i \in DOMAIN ParseStepKeys : DictHas(processing_steps, ParseStepKeys[i])}

build_schema_object(file_record, processing_steps) ==
    LET hits == ParseStepHits(processing_steps)
        parse_step == DictGet(processing_steps, ParseStepKeys[Min(hits)])
        cls == IF file_record["document_type"] = "order"
               THEN "PODataParsed" ELSE "MasterDataParsed"
    IN IF hits # {} /\ ~(/\ parse_step.kind = "StepOutput"
                        /\ parse_step.data.kind = "model"
                        /\ "items" \in DOMAIN parse_step.data.attrs)
       THEN [ok |-> FALSE, object |-> NoData]
       ELSE IF file_record["document_type"] \notin DocumentType
       THEN [ok |-> TRUE, object |-> NoData]
       ELSE IF hits = {}
       THEN [ok |-> TRUE, object |-> Model(("class" :> cls) @@ ("items" :> "[]"))]
       ELSE [ok |-> TRUE,
             object |-> Model(("class" :> cls) @@
                              ("items" :> parse_step.data.attrs["items"]))]

-----------------------------------------------------------------------------
(* Workflows a run may be given *)

\* sorted(workflowSteps, key=stepOrder): a stable insertion sort
RECURSIVE InsertByOrder(_, _)
InsertByOrder(step, sorted) ==
    IF sorted = <<>> THEN <<step>>
    ELSE IF step.stepOrder < Head(sorted).stepOrder THEN <<step>> \o sorted
    ELSE <<Head(sorted)>> \o InsertByOrder(step, Tail(sorted))

\* The steps taken in the order the backend sent them.
SortedByStepOrder_AsSent(steps) == steps

RECURSIVE SortedByStepOrder(_)
SortedByStepOrder(steps) ==
    IF steps = <<>> THEN <<>>
    ELSE InsertByOrder(steps[Len(steps)], SortedByStepOrder(SubSeq(steps, 1, Len(steps) - 1)))

Reverse(s) == [i \in DOMAIN s |-> s[Len(s) + 1 - i]]

Pipelines ==
    { << TEMPLATE_FILE_PARSE, TEMPLATE_FORMAT_VALIDATION, TEMPLATE_DATA_MAPPING,
         TEMPLATE_PUBLISH_DATA >>,
      << TEMPLATE_DATA_MAPPING, CUSTOMER_SUBMIT, NOT_DEFINED_STEP, FILE_PARSE >> }

\* The step-name lists of the workflows: the runs of at most MaxSteps
\* consecutive steps of a pipeline.
WorkflowNames ==
    UNION { {SubSeq(p, i, j) : i \in 1..Len(p), j \in 1..Len(p)} : p \in Pipelines }
        \ {<<>>}
Workflows == {w \in WorkflowNames : Len(w) <= MaxSteps}

StepIds == <<"step-a", "step-b", "step-c", "step-d", "step-e">>
UnknownStepId == "step-unknown"
\* stepOrder of a workflow's first step, as the backend numbers the steps
OrderBases == {0, 1}

\* models/class_models.py WorkflowStep
WorkflowStep(id, name, order) ==
    [workflowStepId |-> id, stepName |-> name, stepOrder |-> order,
     stepConfiguration |-> "[]"]

MakeSteps(names, base) ==
    [i \in DOMAIN names |-> WorkflowStep(StepIds[i], names[i], base + i - 1)]

\* The processor with every workflow function bound, or with the modules of
\* some functions missing (ProcessorBase._register_workflow_processors).
ProcessorVariants ==
    {AllFunctions, AllFunctions \ {"template_format_validation", "copy_file"}}

-----------------------------------------------------------------------------
(* State *)

VARIABLES
    \* the run's inputs
    workflowSteps,        \* WorkflowModel.workflowSteps as the backend sent them
    tracking_model,       \* TrackingModel (rerun_step_id)
    file_record,          \* ProcessorBase.file_record
    processor,            \* the function names bound on the ProcessorBase
    persisted,            \* what object storage holds of an earlier run's step outputs
    \* handle_task
    pc, full_sorted_steps, sorted_steps, step_index, step_result, status_step_result,
    \* ContextData
    processing_steps, step_detail,
    \* PROCESS_DEFINITIONS[key].kwargs, which run_function updates in place
    kwargs,
    \* execute_step
    epc, step_name, prev_step, required_keys, response, ctx_api_records, ctx_index, error,
    \* bookkeeping store, object storage, backend session
    redis, s3, session,
    \* history of the run: step-start calls, execute_step results, plan
    \* requests, function invocations, and what held when execute_step began
    started, executed, finished, be_calls, fn_calls, at_call,
    \* the stop endpoint: what it has done to the task it was asked to stop
    stop,
    \* concurrent runs on other workers: each run's inputs and position
    runs

input_vars == <<workflowSteps, tracking_model, file_record, processor, persisted>>
task_vars == <<pc, full_sorted_steps, sorted_steps, step_index, step_result, status_step_result>>
context_vars == <<processing_steps, step_detail>>
exec_vars == <<epc, step_name, prev_step, required_keys, response, ctx_api_records,
               ctx_index, error>>
external_vars == <<redis, s3, session>>
history_vars == <<started, executed, finished, be_calls, fn_calls, at_call>>
vars == <<input_vars, task_vars, context_vars, kwargs, exec_vars, external_vars,
         history_vars, stop, runs>>

Unbound == [kind |-> "unbound"]

\* The stop endpoint before a request: at no line of its handler (pc), nothing revoked, no response, the
\* task's stored context_data ("stored", or "fallback" when the record has
\* none that parses), no step examined.
StopIdle(context) ==
    [pc |-> "idle", revoked |-> FALSE, status_code |-> 0, context_data |-> context,
     pending |-> <<>>, s3_key_prefix |-> None]
NoStep == [workflowStepId |-> None]

\* models/class_models.py StepDetail (config_api: {} is None, {l} the list l)
StepDetail == [step |-> None, config_api |-> {}, data_output |-> None]

CurrentStep == sorted_steps[step_index]

Init ==
    /\ \E names \in Workflows, base \in OrderBases, reversed \in BOOLEAN :
          workflowSteps = IF reversed THEN Reverse(MakeSteps(names, base))
                          ELSE MakeSteps(names, base)
    /\ \E id \in {None, UnknownStepId} \cup {workflowSteps[i].workflowStepId : i \in DOMAIN workflowSteps} :
          tracking_model = [request_id |-> "run-1", rerun_step_id |-> id]
    /\ \E document_type \in DocumentType :
          file_record = [file_path |-> "raw/po.csv", file_name |-> "po.csv",
                         file_name_wo_ext |-> "po", file_size |-> "1 KB",
                         document_type |-> document_type,
                         target_bucket_name |-> "target-bucket"]
    /\ processor \in ProcessorVariants
    /\ persisted \in IF tracking_model.rerun_step_id = None THEN {"absent"}
                     ELSE {"absent", SUCCESS, FAILED}
    /\ pc = "sort"
    /\ full_sorted_steps = <<>>
    /\ sorted_steps = <<>>
    /\ step_index = 1
    /\ step_result = Unbound
    /\ status_step_result = TRUE
    /\ processing_steps = <<>>
    /\ step_detail = <<>>
    /\ kwargs = [k \in Range(RegistryKeys) |-> PROCESS_DEFINITIONS[k].kwargs]
    /\ epc = "idle"
    /\ step_name = NoName
    /\ prev_step = NoStep
    /\ required_keys = <<>>
    /\ response = RespNone
    /\ ctx_api_records = <<>>
    /\ ctx_index = 1
    /\ error = None
    /\ redis = [run |-> PROCESSING, steps |-> <<>>]
    /\ s3 = <<>>
    /\ session = "started"
    /\ started = <<>>
    /\ executed = <<>>
    /\ finished = <<>>
    /\ be_calls = <<>>
    /\ fn_calls = <<>>
    /\ at_call = [processing_steps |-> <<>>, hydrated |-> None, found |-> None,
                  required_keys |-> <<>>, local_done |-> FALSE, failed_call |-> 0,
                  invoked |-> FALSE, plan_stopped |-> 0]
    /\ stop = StopIdle("stored")
    /\ runs = <<>>

-----------------------------------------------------------------------------
(* handle_task: the step loop *)

\* full_sorted_steps[rerun_index:]
SliceFrom(seq, index) == SubSeq(seq, index + 1, Len(seq))

RerunHits == {i \in DOMAIN SortedByStepOrder(workflowSteps) :
                 SortedByStepOrder(workflowSteps)[i].workflowStepId
                     = tracking_model.rerun_step_id}

\* The steps the loop iterates: all of them, or on a rerun those from list
\* index rerun_step.stepOrder on.
StepsToRun(full) ==
    IF tracking_model.rerun_step_id # None
    THEN SliceFrom(full, full[Min(RerunHits)].stepOrder)
    ELSE full

\* Lines 176-187: sort the steps and select those to run. A rerun id that
\* names no step raises (rerun_step is None).
SortSteps ==
    /\ pc = "sort"
    /\ full_sorted_steps' = SortedByStepOrder(workflowSteps)
    /\ IF tracking_model.rerun_step_id # None /\ RerunHits = {}
       THEN /\ pc' = "except"
            /\ UNCHANGED sorted_steps
       ELSE /\ sorted_steps' = StepsToRun(full_sorted_steps')
            /\ pc' = IF sorted_steps' = <<>> THEN "finish" ELSE "step_start"
    /\ status_step_result' = TRUE
    /\ UNCHANGED <<input_vars, stop, runs, step_index, step_result, context_vars, kwargs, exec_vars,
                   external_vars, history_vars>>

\* call_workflow_step_start's bookkeeping: grow step_detail up to stepOrder
ExtendDetail(detail, order) ==
    [i \in 1..(IF Len(detail) > order THEN Len(detail) ELSE order + 1) |->
        IF i <= Len(detail) THEN detail[i] ELSE StepDetail]

\* Lines 190-193, call_workflow_step_start: the step-start call; no reply raises.
StepStart ==
    /\ pc = "step_start"
    /\ started' = Append(started, CurrentStep.stepOrder)
    /\ \E ok \in BOOLEAN :
          IF ok
          THEN /\ step_detail' =
                     [ExtendDetail(step_detail, CurrentStep.stepOrder)
                         EXCEPT ![CurrentStep.stepOrder + 1].step = CurrentStep.workflowStepId]
               /\ pc' = "store_processing"
          ELSE /\ pc' = "except"
               /\ UNCHANGED step_detail
    /\ UNCHANGED <<input_vars, stop, runs, full_sorted_steps, sorted_steps, step_index, step_result,
                   status_step_result, processing_steps, kwargs, exec_vars, external_vars,
                   executed, finished, be_calls, fn_calls, at_call>>

\* Lines 196-204: store the step as PROCESSING and call execute_step.
StoreProcessing ==
    /\ pc = "store_processing"
    /\ redis' = [redis EXCEPT !.steps = (CurrentStep.workflowStepId :> PROCESSING) @@ @]
    /\ pc' = "execute"
    /\ epc' = "lookup"
    /\ at_call' = [processing_steps |-> processing_steps, hydrated |-> None,
                   found |-> None, required_keys |-> <<>>, local_done |-> FALSE,
                   failed_call |-> 0, invoked |-> FALSE, plan_stopped |-> 0]
    /\ UNCHANGED <<input_vars, stop, runs, full_sorted_steps, sorted_steps, step_index, step_result,
                   status_step_result, context_vars, kwargs, step_name, prev_step,
                   required_keys, response, ctx_api_records, ctx_index, error, s3, session,
                   started, executed, finished, be_calls, fn_calls>>

-----------------------------------------------------------------------------
(* execute_step *)

StepConfig == PROCESS_DEFINITIONS[step_name]

\* Line 42: the first registry key whose data_output is the step's data_input
PrevStepName(config) ==
    LET hits == {i \in DOMAIN RegistryKeys :
                    PROCESS_DEFINITIONS[RegistryKeys[i]].data_output = config.data_input}
    IN IF hits = {} THEN NoName ELSE RegistryKeys[Min(hits)]

\* Lines 39-44: the workflow step that produces this step's input (None for
\* a step of order 0 or when the workflow has no such step).
PrevStep(step, config, steps) ==
    IF step.stepOrder > 0
    THEN LET name == reverse_step_name(PrevStepName(config), steps)
             hits == {i \in DOMAIN steps : steps[i].stepName = name}
         IN IF hits = {} THEN NoStep ELSE steps[Min(hits)]
    ELSE NoStep

Raise(message) ==
    /\ error' = message
    /\ epc' = "except"

\* Lines 31-44: canonical name, registry lookup, previous step.
ExecLookup ==
    /\ pc = "execute" /\ epc = "lookup"
    /\ step_name' = get_step_name(CurrentStep.stepName)
    /\ IF ~IsRegistered(step_name')
       THEN /\ Raise("The step is not yet defined")
            /\ UNCHANGED prev_step
       ELSE /\ prev_step' = PrevStep(CurrentStep, PROCESS_DEFINITIONS[step_name'],
                                     full_sorted_steps)
            /\ epc' = "hydrate"
            /\ UNCHANGED error
    /\ UNCHANGED <<input_vars, stop, runs, task_vars, context_vars, kwargs, required_keys, response,
                   ctx_api_records, ctx_index, external_vars, history_vars>>

\* write_json_to_s3.py get_step_result_from_s3: the storage read raises, finds
\* no object (None), or returns the parsed document whatever its recorded status.
StoredResults ==
    {[kind |-> "raised"],
     IF persisted = "absent" THEN [kind |-> "absent"]
     ELSE [kind |-> "found", step_status |-> persisted]}

PrevResult(stored) ==
    IF stored.kind = "absent" THEN NoData
    ELSE Model(("items" :> "rows") @@ ("step_status" :> stored.step_status)
               @@ ("json_output" :> "stored-key"))

\* A dispatcher without rerun hydration.
HydrationKey_Never == None

\* Hydration that writes the persisted object under the step's own output key.
HydrationKey_Output ==
    IF tracking_model.rerun_step_id # None /\ prev_step # NoStep
    THEN PROCESS_DEFINITIONS[step_name].data_output
    ELSE None

\* The key rerun hydration fills: the previous step's data_output when this
\* is a rerun, there is a previous step and the key is not in processing_steps.
HydrationKey ==
    IF tracking_model.rerun_step_id # None /\ prev_step # NoStep
    THEN LET key_name == PROCESS_DEFINITIONS[PrevStepName(StepConfig)].data_output
         IN IF key_name # None /\ ~DictHas(processing_steps, key_name)
            THEN key_name ELSE None
    ELSE None

\* Lines 46-61: rerun hydration.
ExecHydrate ==
    /\ pc = "execute" /\ epc = "hydrate"
    /\ IF HydrationKey = None
       THEN /\ epc' = "resolve"
            /\ UNCHANGED <<processing_steps, error, at_call>>
       ELSE \E stored \in StoredResults :
               IF stored.kind = "raised"
               THEN /\ Raise("storage read failed")
                    /\ UNCHANGED <<processing_steps, at_call>>
               ELSE /\ processing_steps' =
                          DictSet(processing_steps, HydrationKey,
                                  StepOutput(PrevResult(stored), SUCCESS, {}))
                    /\ at_call' = [at_call EXCEPT !.hydrated = HydrationKey,
                                                  !.found = IF stored.kind = "found"
                                                            THEN stored.step_status
                                                            ELSE "absent"]
                    /\ epc' = "resolve"
                    /\ UNCHANGED error
    /\ UNCHANGED <<input_vars, stop, runs, task_vars, step_detail, kwargs, step_name, prev_step,
                   required_keys, response, ctx_api_records, ctx_index, external_vars,
                   started, executed, finished, be_calls, fn_calls>>

\* Lines 63-77: the call plan and the required keys. Subscripting the None
\* that get_context_api returns for a step without a table row raises.
ExecResolve ==
    /\ pc = "execute" /\ epc = "resolve"
    /\ LET result_ctx_api == get_context_api(step_name)
       IN IF ~result_ctx_api.found
          THEN /\ Raise("'NoneType' object is not subscriptable")
               /\ UNCHANGED <<required_keys, response, ctx_api_records, ctx_index, at_call>>
          ELSE /\ required_keys' =
                     fill_required_keys_for_request(result_ctx_api.required_keys,
                                                    file_record, CurrentStep,
                                                    processing_steps)
               /\ at_call' = [at_call EXCEPT !.required_keys = required_keys']
               /\ ctx_api_records' = <<>>
               /\ response' = RespNone
               /\ ctx_index' = 1
               /\ epc' = IF result_ctx_api.ctxs = <<>> THEN "function" ELSE "plan"
               /\ UNCHANGED error
    /\ UNCHANGED <<input_vars, stop, runs, task_vars, context_vars, kwargs, step_name, prev_step,
                   external_vars, started, executed, finished, be_calls, fn_calls>>

\* What a function bound on the processor does when called is its own
\* business: a workflow function raises or returns a StepOutput (a document,
\* possibly with extra fields, or a plain dict as data); copy_file catches
\* every error and returns a dict with the link ("" on failure).
BusinessOutputs ==
    { WithDataOutput(out) : out \in
        { StepOutput(Model(("items" :> "rows") @@ ("templateFileParseId" :> "stale")),
                     SUCCESS, {}),
          StepOutput(DictData, SUCCESS, {}),
          StepOutput(Model(("items" :> "[]") @@ ("messages" :> "step failed")),
                     FAILED, {<<"step failed">>}) } }

\* response_api.get(name) of a backend reply handed to a function
ResponseGet(response_api, name) ==
    IF response_api.kind = "dict" /\ name \in DOMAIN response_api.fields
    THEN response_api.fields[name]
    ELSE None

\* publish_data.py build_publish_data_output: connection.get(...) raises on a
\* connection that is None, the subscript ["REQUIRED"] on one without
\* "requiredFields".
build_publish_data_output(connection) ==
    [ok |-> connection \notin {None, IncompleteConnection}]

\* publish_data.py publish_data. The data output is built before the try, so
\* a missing connection raises. Inside the try: a falsy response raises
\* RuntimeError, a truthy "success" returns data_input.data with SUCCESS, any
\* other reply a copy of it with FAILED; both returns carry
\* [response_api.get("message")] as step_failure_message. The except clause
\* returns FAILED on a copy of the schema object (which raises when that is
\* None).
publish_data(data_input, schema_object, response_api, kw) ==
    LET Raised(e) == [raised |-> TRUE, error |-> e, result |-> NoData]
        Returned(out) == [raised |-> FALSE, error |-> None,
                          result |-> WithDataOutput(out)]
        message == ResponseGet(response_api, "message")
        Caught(e) ==
            LET error_msg == IF data_input.kind = "none"
                             THEN "[publish_data] missing data_input from previous step"
                             ELSE e
            IN IF schema_object.kind = "model"
               THEN Returned(StepOutput(Model(("messages" :> error_msg) @@
                                              schema_object.attrs),
                                        FAILED, {<<error_msg>>}))
               ELSE Raised("'NoneType' object has no attribute 'model_copy'")
    IN IF ~build_publish_data_output(
              IF DictHas(kw, "connectionDto") THEN DictGet(kw, "connectionDto")
              ELSE None).ok
       THEN Raised("'NoneType' object has no attribute 'get'")
       ELSE IF response_api.kind # "dict"
       THEN Caught("Publish API did not return a valid response")
       ELSE IF data_input.kind # "StepOutput"
       THEN Caught("object has no attribute 'data'")
       ELSE IF ResponseGet(response_api, "success") = "true"
       THEN Returned(StepOutput(data_input.data, SUCCESS, {<<message>>}))
       ELSE IF data_input.data.kind # "model"
       THEN Caught("object has no attribute 'model_copy'")
       ELSE Returned(StepOutput(Model(("step_status" :> FAILED) @@
                                      ("messages" :> message) @@
                                      data_input.data.attrs),
                                FAILED, {<<message>>}))

\* What the function `func_name` of the processor may do when run_function
\* calls it in the current state.
FunctionOutcomes(func_name) ==
    IF func_name = "copy_file"
    THEN {[raised |-> FALSE, error |-> None,
           result |-> DictResult("fileOutputLink" :> link)] :
             link \in {"", "target-bucket/dest"}}
    ELSE IF func_name = "publish_data"
    THEN LET schema == build_schema_object(file_record, processing_steps)
             step_config == StepConfig
         IN {publish_data(IF step_config.data_input # None
                             /\ DictHas(processing_steps, step_config.data_input)
                          THEN DictGet(processing_steps, step_config.data_input)
                          ELSE NoData,
                          IF schema.ok THEN schema.object ELSE NoData,
                          response,
                          fill_required_keys_from_response(response, kwargs[step_name]))}
    ELSE {[raised |-> TRUE, error |-> "boom", result |-> NoData]}
            \cup {[raised |-> FALSE, error |-> None, result |-> out] :
                     out \in BusinessOutputs}

\* The function run_function resolves: func_name, or the step's function_name.
FunctionName(func_name) ==
    IF func_name # None THEN func_name ELSE StepConfig.function_name

\* run_function, with `outcome` what the called function does. In order:
\* getattr on the processor (AttributeError when absent), the registry kwargs
\* filled from the response, build_schema_object, kwargs["step"], the call,
\* and the result stored under the step's data_output.
run_function(func_name, outcome) ==
    LET name == FunctionName(func_name)
        filled == fill_required_keys_from_response(response, kwargs[step_name])
        schema == build_schema_object(file_record, processing_steps)
        called == DictSet(filled, "step", CurrentStep.workflowStepId)
        base == [raised |-> TRUE, invoked |-> FALSE, error |-> None, result |-> NoData,
                 processing_steps |-> processing_steps, kwargs |-> kwargs]
    IN IF name \notin processor
       THEN [base EXCEPT !.error = "Function not found in FileProcessor."]
       ELSE IF ~schema.ok
       THEN [base EXCEPT !.error = "'NoneType' object has no attribute 'items'",
                         !.kwargs = [kwargs EXCEPT ![step_name] = filled]]
       ELSE IF outcome.raised
       THEN [base EXCEPT !.error = outcome.error, !.invoked = TRUE,
                         !.kwargs = [kwargs EXCEPT ![step_name] = called]]
       ELSE [base EXCEPT !.raised = FALSE, !.invoked = TRUE,
                         !.result = outcome.result,
                         !.kwargs = [kwargs EXCEPT ![step_name] = called],
                         !.processing_steps =
                             IF StepConfig.data_output # None
                             THEN DictSet(processing_steps, StepConfig.data_output,
                                          outcome.result)
                             ELSE processing_steps]

FnCall(name, local, r) ==
    [step |-> CurrentStep.stepOrder, function |-> name, local |-> local,
     raised |-> r.raised, keys |-> DictKeys(processing_steps)]

Plan == get_context_api(step_name).ctxs
PlanEntry == Plan[ctx_index]

Upper(method) == IF method = "get" THEN "GET" ELSE IF method = "post" THEN "POST" ELSE method

\* Lines 78-87, 98-115: a plan entry with a URL. The request is sent, the
\* extract lambda runs on the response, the call is recorded.
ExecPlanHttp ==
    /\ pc = "execute" /\ epc = "plan"
    /\ PlanEntry.url.base # ""
    /\ LET url == MakeUrl(PlanEntry.url, required_keys)
           params == MakeFields(PlanEntry.params, required_keys)
           body == MakeFields(PlanEntry.body, required_keys)
       IN \E resp \in BEConnector_request(url.base) :
             LET extracted == Extract(PlanEntry.extract, resp, required_keys)
             IN /\ response' = resp
                /\ be_calls' = Append(be_calls,
                                      [step |-> CurrentStep.stepOrder, index |-> ctx_index,
                                       url |-> url])
                /\ at_call' = [at_call EXCEPT
                                  !.failed_call =
                                      IF @ = 0 /\ resp = RespNone THEN ctx_index ELSE @,
                                  !.plan_stopped =
                                      IF extracted.ok THEN @ ELSE ctx_index]
                /\ IF ~extracted.ok
                   THEN /\ Raise("response has no such member")
                        /\ UNCHANGED <<required_keys, ctx_api_records, ctx_index>>
                   ELSE /\ required_keys' = extracted.keys
                        /\ ctx_api_records' =
                              Append(ctx_api_records,
                                     [url |-> ShortUrl(url), method |-> Upper(PlanEntry.method),
                                      request |-> [params |-> params, body |-> body],
                                      response |-> resp])
                        /\ ctx_index' = ctx_index + 1
                        /\ epc' = IF ctx_index' > Len(Plan) THEN "function" ELSE "plan"
                        /\ UNCHANGED error
    /\ UNCHANGED <<input_vars, stop, runs, task_vars, context_vars, kwargs, step_name, prev_step,
                   external_vars, started, executed, finished, fn_calls>>

\* Lines 78-96: a plan entry without a URL runs the named function through
\* run_function; the extract lambda runs on its result. Nothing is recorded.
ExecPlanLocal ==
    /\ pc = "execute" /\ epc = "plan"
    /\ PlanEntry.url.base = ""
    /\ \E outcome \in FunctionOutcomes(FunctionName(PlanEntry.method)) :
          LET r == run_function(PlanEntry.method, outcome)
              extracted == Extract(PlanEntry.extract, r.result, required_keys)
          IN /\ kwargs' = r.kwargs
             /\ processing_steps' = r.processing_steps
             /\ fn_calls' = IF r.invoked
                            THEN Append(fn_calls, FnCall(PlanEntry.method, TRUE, r))
                            ELSE fn_calls
             /\ IF r.raised
                THEN /\ Raise(r.error)
                     /\ at_call' = [at_call EXCEPT !.plan_stopped = ctx_index]
                     /\ UNCHANGED <<required_keys, ctx_index>>
                ELSE /\ at_call' = [at_call EXCEPT !.local_done = TRUE,
                                                  !.plan_stopped =
                                                      IF extracted.ok THEN @ ELSE ctx_index]
                     /\ IF ~extracted.ok
                        THEN /\ Raise("result has no such member")
                             /\ UNCHANGED <<required_keys, ctx_index>>
                        ELSE /\ required_keys' = extracted.keys
                             /\ ctx_index' = ctx_index + 1
                             /\ epc' = IF ctx_index' > Len(Plan) THEN "function" ELSE "plan"
                             /\ UNCHANGED error
    /\ UNCHANGED <<input_vars, stop, runs, task_vars, step_detail, step_name, prev_step, response,
                   ctx_api_records, external_vars, started, executed, finished, be_calls>>

\* execute_step returns `result` to handle_task.
Return(result, by_exception) ==
    /\ step_result' = result
    /\ executed' = Append(executed,
                          [step |-> CurrentStep.stepOrder, status |-> result.step_status,
                           by_exception |-> by_exception])
    /\ pc' = "store_status"
    /\ epc' = "idle"

\* Lines 117-126: the call trace goes into the step's detail, the business
\* function runs through run_function, its result is returned.
ExecFunction ==
    /\ pc = "execute" /\ epc = "function"
    /\ step_detail' = [step_detail EXCEPT ![CurrentStep.stepOrder + 1].config_api =
                                              {ctx_api_records}]
    /\ \E outcome \in FunctionOutcomes(FunctionName(None)) :
          LET r == run_function(None, outcome)
          IN /\ kwargs' = r.kwargs
             /\ processing_steps' = r.processing_steps
             /\ fn_calls' = IF r.invoked
                            THEN Append(fn_calls, FnCall(FunctionName(None), FALSE, r))
                            ELSE fn_calls
             /\ at_call' = [at_call EXCEPT !.invoked = r.invoked]
             /\ IF r.raised
                THEN /\ Raise(r.error)
                     /\ UNCHANGED <<pc, step_result, executed>>
                ELSE /\ Return(r.result, FALSE)
                     /\ UNCHANGED error
    /\ UNCHANGED <<input_vars, stop, runs, full_sorted_steps, sorted_steps, step_index,
                   status_step_result, step_name, prev_step, required_keys, response,
                   ctx_api_records, ctx_index, external_vars, started, finished, be_calls>>

\* Lines 128-149: the except clause. It builds the schema object again for
\* the FAILED output's data; when that raises (or yields None, on which
\* model_copy raises) the exception leaves execute_step.
ExecExcept ==
    /\ pc = "execute" /\ epc = "except"
    /\ LET schema == build_schema_object(file_record, processing_steps)
       IN IF schema.ok /\ schema.object.kind = "model"
          THEN Return(StepOutput(Model(("messages" :> error) @@ schema.object.attrs),
                                 FAILED, {<<error>>}),
                      TRUE)
          ELSE /\ executed' = Append(executed,
                                     [step |-> CurrentStep.stepOrder, status |-> "RAISED",
                                      by_exception |-> TRUE])
               /\ pc' = "except"
               /\ epc' = "idle"
               /\ UNCHANGED step_result
    /\ UNCHANGED <<input_vars, stop, runs, full_sorted_steps, sorted_steps, step_index,
                   status_step_result, context_vars, kwargs, step_name, prev_step,
                   required_keys, response, ctx_api_records, ctx_index, error,
                   external_vars, started, finished, be_calls, fn_calls, at_call>>

-----------------------------------------------------------------------------
(* handle_task: after execute_step *)

\* One prefix for every step of the run.
get_s3_key_prefix_Shared(step) == "shared"

\* utils/bucket_helper.py get_s3_key_prefix: within one run the prefix of a
\* step's output is determined by the step.
get_s3_key_prefix(step) == step.workflowStepId

\* Lines 206-222: the step's status goes to the bookkeeping store.
StoreStepStatus ==
    /\ pc = "store_status"
    /\ redis' = [redis EXCEPT !.steps =
                    (CurrentStep.workflowStepId :> step_result.step_status) @@ @]
    /\ pc' = "step_finish"
    /\ UNCHANGED <<input_vars, stop, runs, full_sorted_steps, sorted_steps, step_index, step_result,
                   status_step_result, context_vars, kwargs, exec_vars, s3, session,
                   history_vars>>

\* inject_metadata_into_step_result on step_result.data: a document model is
\* copied with the run's metadata and the output location
InjectMetadata(data, s3_key_prefix) ==
    Model(("json_output" :> s3_key_prefix) @@ data.attrs)

\* execute_step returned the object run_function stored in processing_steps
ResultIsStored ==
    /\ executed # <<>>
    /\ ~executed[Len(executed)].by_exception
    /\ StepConfig.data_output # None

\* Lines 225-241: the step-finish call (its reply is not looked at) and, when
\* the result has data, the metadata injection, which replaces the data of
\* the result object and raises for data that is no document.
StepFinish ==
    /\ pc = "step_finish"
    /\ finished' = Append(finished,
                          [step |-> CurrentStep.stepOrder, code |-> step_result.step_status,
                           messages |-> step_result.step_failure_message])
    /\ IF step_result.data.kind = "none"
       THEN /\ pc' = "store_output"
            /\ UNCHANGED <<step_result, processing_steps>>
       ELSE IF step_result.data.kind = "model"
       THEN /\ step_result' =
                  [step_result EXCEPT !.data =
                      InjectMetadata(@, get_s3_key_prefix(CurrentStep))]
            /\ processing_steps' =
                  IF ResultIsStored
                  THEN DictSet(processing_steps, StepConfig.data_output, step_result')
                  ELSE processing_steps
            /\ pc' = "store_output"
       ELSE /\ pc' = "except"
            /\ UNCHANGED <<step_result, processing_steps>>
    /\ UNCHANGED <<input_vars, stop, runs, full_sorted_steps, sorted_steps, step_index,
                   status_step_result, step_detail, kwargs, exec_vars, external_vars,
                   started, executed, be_calls, fn_calls, at_call>>

\* store_data_in_s3 -> write_json_to_s3: the object is handed to the write
\* for the key; `status` is what became of it (the bucket holds the objects
\* of the writes with status "Success").
S3Write(key, object, raw, status) ==
    Append(s3, [key |-> key, object |-> object, raw |-> raw, status |-> status])

\* What a write to object storage may do: store the object, report
\* {"status": "Failed"} without raising (tests/utils/test_read_n_write_s3.py;
\* the processor's write_json_to_s3 does not look at the status), or raise
\* (which write_json_to_s3 re-raises).
WriteOutcomes == {"Success", "Failed", "raised"}

\* A loop that never breaks: every result counts as a success.
StepSucceeded_Always(result) == TRUE

\* Line 243: status_step_result
StepSucceeded(result) == result.step_status = SUCCESS

\* Lines 243-249: the result is written to storage; the loop ends on a
\* result that is not SUCCESS, and on the last step.
StoreStepOutput ==
    /\ pc = "store_output"
    /\ status_step_result' = StepSucceeded(step_result)
    /\ \E written \in WriteOutcomes :
          /\ s3' = S3Write(get_s3_key_prefix(CurrentStep), step_result, FALSE, written)
          /\ IF written = "raised"
             THEN /\ pc' = "except"
                  /\ UNCHANGED step_index
             ELSE IF status_step_result' /\ step_index < Len(sorted_steps)
             THEN /\ step_index' = step_index + 1
                  /\ pc' = "step_start"
             ELSE /\ pc' = "finish"
                  /\ UNCHANGED step_index
    /\ UNCHANGED <<input_vars, stop, runs, full_sorted_steps, sorted_steps, step_result, context_vars,
                   kwargs, exec_vars, redis, session, history_vars>>

\* Lines 252-257: the run's status becomes the last result's status; with no
\* step executed step_result is unbound and the read raises.
FinishRun ==
    /\ pc = "finish"
    /\ IF step_result = Unbound
       THEN /\ pc' = "except"
            /\ UNCHANGED redis
       ELSE /\ redis' = [redis EXCEPT !.run = step_result.step_status]
            /\ pc' = "session_finish"
    /\ UNCHANGED <<input_vars, stop, runs, full_sorted_steps, sorted_steps, step_index, step_result,
                   status_step_result, context_vars, kwargs, exec_vars, s3, session,
                   history_vars>>

\* Lines 259-263, call_workflow_session_finish: no reply raises.
SessionFinish ==
    /\ pc = "session_finish"
    /\ \E ok \in BOOLEAN :
          /\ session' = IF status_step_result THEN SUCCESS ELSE FAILED
          /\ pc' = IF ok THEN "final_store" ELSE "except"
    /\ UNCHANGED <<input_vars, stop, runs, full_sorted_steps, sorted_steps, step_index, step_result,
                   status_step_result, context_vars, kwargs, exec_vars, redis, s3,
                   history_vars>>

\* Lines 265-274: the last result is written once more (with the raw file
\* for a master-data document) and handle_task returns.
FinalStore ==
    /\ pc = "final_store"
    /\ \E written \in WriteOutcomes :
          /\ s3' = S3Write(get_s3_key_prefix(CurrentStep), step_result,
                           file_record["document_type"] = "master_data", written)
          /\ pc' = IF written = "raised" THEN "except" ELSE "done"
    /\ UNCHANGED <<input_vars, stop, runs, full_sorted_steps, sorted_steps, step_index, step_result,
                   status_step_result, context_vars, kwargs, exec_vars, redis, session,
                   history_vars>>

\* An except clause that re-raises without storing the run's status.
Except_KeepStatus ==
    /\ pc = "except"
    /\ pc' = "raised"
    /\ UNCHANGED <<input_vars, stop, runs, full_sorted_steps, sorted_steps, step_index, step_result,
                   status_step_result, context_vars, kwargs, exec_vars, external_vars,
                   history_vars>>

\* Lines 276-285: the run is stored as FAILED and the exception re-raised.
Except ==
    /\ pc = "except"
    /\ redis' = [redis EXCEPT !.run = FAILED]
    /\ pc' = "raised"
    /\ UNCHANGED <<input_vars, stop, runs, full_sorted_steps, sorted_steps, step_index, step_result,
                   status_step_result, context_vars, kwargs, exec_vars, s3, session,
                   history_vars>>

Next ==
    \/ SortSteps
    \/ StepStart
    \/ StoreProcessing
    \/ ExecLookup
    \/ ExecHydrate
    \/ ExecResolve
    \/ ExecPlanHttp
    \/ ExecPlanLocal
    \/ ExecFunction
    \/ ExecExcept
    \/ StoreStepStatus
    \/ StepFinish
    \/ StoreStepOutput
    \/ FinishRun
    \/ SessionFinish
    \/ FinalStore
    \/ Except

Spec == Init /\ [][Next]_vars

-----------------------------------------------------------------------------
(* Properties *)

LastExecuted == executed[Len(executed)]

\* The step a rerun targets: the one whose workflowStepId is rerun_step_id.
IsRerun == tracking_model.rerun_step_id # None /\ RerunHits # {}
RerunTarget == SortedByStepOrder(workflowSteps)[Min(RerunHits)]

\* C1: execute_step never raises: every call ends with a returned StepOutput,
\* and a call that ended through its except clause returned status FAILED
\* with step_failure_message the one-element list holding the exception's
\* message.
C1_ExecuteStepNeverRaises ==
    /\ \A i \in DOMAIN executed : executed[i].status \in StatusEnum
    /\ (pc = "store_status" /\ LastExecuted.by_exception) =>
          /\ step_result.step_status = FAILED
          /\ step_result.step_failure_message = {<<error>>}

\* C2: once execute_step has returned a StepOutput whose status is not
\* SUCCESS, that call is the run's last: no later step gets a step-start
\* call, a PROCESSING status in the bookkeeping store or an execute_step call.
C2_NoStepAfterFailure ==
    \A i \in DOMAIN executed :
        executed[i].status \in (StatusEnum \ {SUCCESS}) =>
            /\ i = Len(executed)
            /\ Len(started) = i
            /\ pc \notin {"step_start", "store_processing", "execute"}
            /\ \A j \in DOMAIN sorted_steps :
                  j > step_index => sorted_steps[j].workflowStepId \notin DOMAIN redis.steps

\* A run that ended normally after a FAILED step with steps still to go.
C2_Witness ==
    /\ pc = "done"
    /\ executed # <<>>
    /\ LastExecuted.status = FAILED
    /\ step_index < Len(sorted_steps)

\* C3: the steps start in strictly ascending stepOrder, one at a time: when
\* a further step has started, execute_step has returned a StepOutput for
\* each step started before it and that output was handed to the storage
\* write.
C3_SequentialAscending ==
    /\ \A i, j \in DOMAIN started : i < j => started[i] < started[j]
    /\ \A i \in DOMAIN started :
          i < Len(started) =>
              /\ i <= Len(executed)
              /\ executed[i].step = started[i]
              /\ executed[i].status \in StatusEnum
              /\ i <= Len(s3)
              /\ sorted_steps[i].stepOrder = started[i]
              /\ s3[i].key = get_s3_key_prefix(sorted_steps[i])

\* Three steps started, of a workflow the backend sent in descending order.
C3_Witness ==
    /\ Len(started) = 3
    /\ workflowSteps[1].stepOrder > workflowSteps[Len(workflowSteps)].stepOrder

\* C4: on a rerun of a workflow with unique ascending stepOrder values the
\* steps to run are the targeted step and all steps after it, and the first
\* step started is the targeted one.
C4_RerunStartsAtTarget ==
    (IsRerun /\ pc # "sort") =>
        /\ sorted_steps = SubSeq(full_sorted_steps, Min(RerunHits), Len(full_sorted_steps))
        /\ started # <<>> => started[1] = RerunTarget.stepOrder

\* The context key the rerun's target reads, and whether a step ordered
\* before the target produces it.
C5_InputKey == PROCESS_DEFINITIONS[get_step_name(RerunTarget.stepName)].data_input
C5_HasUpstream ==
    /\ IsRegistered(get_step_name(RerunTarget.stepName))
    /\ C5_InputKey # None
    /\ \E i \in DOMAIN workflowSteps :
          /\ workflowSteps[i].stepOrder < RerunTarget.stepOrder
          /\ IsRegistered(get_step_name(workflowSteps[i].stepName))
          /\ PROCESS_DEFINITIONS[get_step_name(workflowSteps[i].stepName)].data_output
                = C5_InputKey

\* C5: on a rerun whose target has an upstream step with a persisted SUCCESS
\* output, the upstream output key is in processing_steps whenever the
\* target's business function is invoked, and no step ordered before the
\* target gets a step-start call, a backend plan call or a function invocation.
C5_RerunReusesUpstream ==
    (IsRerun /\ persisted = SUCCESS /\ C5_HasUpstream) =>
        /\ \A i \in DOMAIN fn_calls :
              (fn_calls[i].step = RerunTarget.stepOrder /\ ~fn_calls[i].local)
                  => C5_InputKey \in fn_calls[i].keys
        /\ \A i \in DOMAIN started : started[i] >= RerunTarget.stepOrder
        /\ \A i \in DOMAIN be_calls : be_calls[i].step >= RerunTarget.stepOrder
        /\ \A i \in DOMAIN fn_calls : fn_calls[i].step >= RerunTarget.stepOrder

\* The target's business function was invoked on such a rerun.
C5_Witness ==
    /\ IsRerun /\ persisted = SUCCESS /\ C5_HasUpstream
    /\ \E i \in DOMAIN fn_calls :
          fn_calls[i].step = RerunTarget.stepOrder /\ ~fn_calls[i].local

\* C6: when the two-entry plan of TEMPLATE_FORMAT_VALIDATION or
\* TEMPLATE_DATA_MAPPING has been executed, the URL of the second request
\* carries the templateFileParseId of the first entry's response, whatever
\* the required-keys map held for that key before the plan ran.
C6_SecondUrlCarriesExtractedId ==
    (/\ pc = "execute" /\ epc = "function"
     /\ step_name \in {TEMPLATE_FORMAT_VALIDATION, TEMPLATE_DATA_MAPPING}) =>
        /\ Len(ctx_api_records) = 2
        /\ ctx_api_records[1].response.kind = "list"
        /\ be_calls[Len(be_calls)].step = CurrentStep.stepOrder
        /\ be_calls[Len(be_calls)].index = 2
        /\ be_calls[Len(be_calls)].url.arg
              = ctx_api_records[1].response.items[1]["templateFileParse"]

\* Such a plan executed after the key had been resolved from the processing
\* context to another value than the one the first response holds.
C6_Witness ==
    /\ pc = "execute" /\ epc = "function"
    /\ step_name \in {TEMPLATE_FORMAT_VALIDATION, TEMPLATE_DATA_MAPPING}
    /\ at_call.required_keys["templateFileParseId"] = "stale"
    /\ be_calls[Len(be_calls)].url.arg = "id1"

\* C7: when a backend call of the plan has failed, no later entry of the
\* plan is requested, the business function is not invoked and execute_step
\* returns FAILED.
C7_FailedCallEndsPlan ==
    at_call.failed_call # 0 =>
        /\ ~at_call.invoked
        /\ \A i \in DOMAIN be_calls :
              be_calls[i].step = CurrentStep.stepOrder
                  => be_calls[i].index <= at_call.failed_call
        /\ pc = "store_status" => step_result.step_status = FAILED

\* The keys of processing_steps added or overwritten since execute_step began
C8_ChangedKeys ==
    {k \in DictKeys(processing_steps) :
        \/ ~DictHas(at_call.processing_steps, k)
        \/ DictGet(at_call.processing_steps, k) # DictGet(processing_steps, k)}

C8_ReturnedByException == pc = "store_status" /\ LastExecuted.by_exception

C9_FreshCall ==
    /\ pc = "store_status"
    /\ tracking_model.rerun_step_id = None
    /\ IsRegistered(step_name)
    /\ StepConfig.function_name \in processor

\* C9: for a registered step with an empty call plan, unless the business
\* function raised, execute_step returns the StepOutput the function
\* returned, and processing_steps maps the declared output key to it.
C9_EmptyPlanReturnsFunctionResult ==
    (C9_FreshCall /\ Plan = <<>>) =>
        \/ \E i \in DOMAIN fn_calls :
              fn_calls[i].step = CurrentStep.stepOrder /\ fn_calls[i].raised
        \/ /\ ~LastExecuted.by_exception
           /\ step_result \in BusinessOutputs
           /\ StepConfig.data_output # None =>
                 /\ DictHas(processing_steps, StepConfig.data_output)
                 /\ DictGet(processing_steps, StepConfig.data_output) = step_result

\* C10: for a registered step without a row in the call-plan table,
\* execute_step makes no backend call and invokes the business function
\* exactly once; it returns through the except clause only if that
\* invocation raised.
C10_NoPlanRowRunsFunction ==
    (C9_FreshCall /\ ~get_context_api(step_name).found) =>
        /\ \A i \in DOMAIN be_calls : be_calls[i].step # CurrentStep.stepOrder
        /\ Cardinality({i \in DOMAIN fn_calls :
                           fn_calls[i].step = CurrentStep.stepOrder}) = 1
        /\ \A i \in DOMAIN fn_calls :
              (fn_calls[i].step = CurrentStep.stepOrder /\ ~fn_calls[i].raised)
                  => ~LastExecuted.by_exception

SpecFair == Spec /\ WF_vars(Next)

\* C13: on a rerun where no persisted output of the upstream step is found,
\* execute_step goes on without hydration: the upstream key stays absent from
\* processing_steps, no placeholder is injected.
C13_NoPlaceholderWhenAbsent ==
    (pc = "execute" /\ at_call.found = "absent")
        => ~DictHas(processing_steps, at_call.hydrated)

\* C14: hydration places a SUCCESS StepOutput under the upstream key only when
\* the persisted output's recorded status is SUCCESS.
C14_HydratesOnlySuccess ==
    (/\ pc = "execute"
     /\ at_call.found \in StatusEnum
     /\ DictHas(processing_steps, at_call.hydrated)
     /\ DictGet(processing_steps, at_call.hydrated).step_status = SUCCESS)
        => at_call.found = SUCCESS

\* What the original run held under a step's output key once the step had
\* succeeded: the StepOutput its function returned, with the metadata injected
\* into its document.
C15_OriginalOutputs(step) ==
    {[out EXCEPT !.data = InjectMetadata(out.data, get_s3_key_prefix(step))] :
        out \in {o \in BusinessOutputs : o.step_status = SUCCESS /\ o.data.kind = "model"}}

\* C15: after the rerun's execute_step for the target step, processing_steps
\* holds under the step's input key what the original run held there: the
\* upstream step's StepOutput as that run produced it.
C15_RerunHoldsOriginalInput ==
    (/\ pc = "store_status"
     /\ at_call.found = SUCCESS
     /\ DictHas(processing_steps, at_call.hydrated))
        => DictGet(processing_steps, at_call.hydrated) \in C15_OriginalOutputs(prev_step)

\* C18: every run whose backend session was started eventually sends the
\* session-finish call, also when an exception leaves the step loop and the
\* run is recorded as FAILED.
C18_SessionEventuallyFinished ==
    (session = "started") ~> (session # "started")

\* C19: when writing a step's output to storage fails inside the loop, the
\* run is aborted: no later step starts and the run does not finish with
\* session code SUCCESS.
C19_WriteFailureAbortsRun ==
    \A i \in DOMAIN s3 :
        (i <= Len(started) /\ s3[i].status # "Success")
            => /\ pc \in {"except", "raised"}
               /\ Len(started) = i
               /\ session # SUCCESS

-----------------------------------------------------------------------------
(* fill_required_keys_for_request on its own: the resolver is applied once to
   a file record, a step and a processing context drawn from bounded sets. *)

MaxContext == 2

ResolverKeys == {"file_name", "workflowStepId", "templateFileParseId"}

\* The i-th entry of processing_steps: a plain dict or a StepOutput on a
\* document, holding some of the keys, each with a value naming the entry.
ContextEntries(i) ==
    LET value == <<"from context 1", "from context 2", "from context 3",
                   "from context 4">>[i]
        key == <<"parsed_data", "validated_data", "mapped_data", "published_data">>[i]
    IN {[key |-> key, value |-> DictResult([k \in keys |-> value])] :
            keys \in SUBSET ResolverKeys}
        \cup {[key |-> key,
               value |-> StepOutput(Model([k \in keys |-> value]), SUCCESS, {})] :
                 keys \in (SUBSET ResolverKeys) \ {{}}}

RECURSIVE Contexts(_)
Contexts(n) ==
    IF n = 0 THEN {<<>>}
    ELSE Contexts(n - 1) \cup
         {Append(c, entry) :
             c \in {d \in Contexts(n - 1) : Len(d) = n - 1}, entry \in ContextEntries(n)}

ResolverInit ==
    /\ workflowSteps = <<>>
    /\ tracking_model = [request_id |-> "run-1", rerun_step_id |-> None]
    /\ \E keys \in SUBSET ResolverKeys : file_record = [k \in keys |-> "from file_record"]
    /\ processor = AllFunctions
    /\ persisted = "absent"
    /\ pc = "resolver"
    /\ full_sorted_steps = <<>>
    /\ \E keys \in SUBSET ResolverKeys : sorted_steps = <<[k \in keys |-> "from step"]>>
    /\ step_index = 1
    /\ step_result = Unbound
    /\ status_step_result = TRUE
    /\ processing_steps \in Contexts(MaxContext)
    /\ step_detail = <<>>
    /\ kwargs = [k \in Range(RegistryKeys) |-> PROCESS_DEFINITIONS[k].kwargs]
    /\ epc = "idle"
    /\ step_name = NoName
    /\ prev_step = NoStep
    /\ required_keys = [k \in ResolverKeys |-> None]
    /\ response = RespNone
    /\ ctx_api_records = <<>>
    /\ ctx_index = 1
    /\ error = None
    /\ redis = [run |-> PROCESSING, steps |-> <<>>]
    /\ s3 = <<>>
    /\ session = "started"
    /\ started = <<>>
    /\ executed = <<>>
    /\ finished = <<>>
    /\ be_calls = <<>>
    /\ fn_calls = <<>>
    /\ at_call = [processing_steps |-> <<>>, hydrated |-> None, found |-> None,
                  required_keys |-> <<>>, local_done |-> FALSE, failed_call |-> 0,
                  invoked |-> FALSE, plan_stopped |-> 0]
    /\ stop = StopIdle("stored")
    /\ runs = <<>>

\* required_keys = fill_required_keys_for_request(required_keys, file_record,
\* step, processing_steps)
ResolverCall ==
    /\ pc = "resolver"
    /\ required_keys' = fill_required_keys_for_request(required_keys, file_record,
                                                       CurrentStep, processing_steps)
    /\ pc' = "resolved"
    /\ UNCHANGED <<input_vars, stop, runs, full_sorted_steps, sorted_steps, step_index, step_result,
                   status_step_result, context_vars, kwargs, epc, step_name, prev_step,
                   response, ctx_api_records, ctx_index, error, external_vars,
                   history_vars>>

SpecResolver == ResolverInit /\ [][ResolverCall]_vars

C12_InContext(key) ==
    \E i \in DOMAIN processing_steps : InfoHas(processing_steps[i].value, key)

\* C12: the resolver fills a required key from the file record when the file
\* record has it, else from the step when the step has it, else from the
\* processing context; a key none of them has stays None.
C12_ResolverPriority ==
    pc = "resolved" =>
        \A key \in ResolverKeys :
            /\ key \in DOMAIN file_record => required_keys[key] = "from file_record"
            /\ key \notin DOMAIN file_record /\ key \in DOMAIN CurrentStep
                  => required_keys[key] = "from step"
            /\ key \notin DOMAIN file_record /\ key \notin DOMAIN CurrentStep
                  /\ C12_InContext(key)
                  => required_keys[key] \notin {None, "from file_record", "from step"}
            /\ key \notin DOMAIN file_record /\ key \notin DOMAIN CurrentStep
                  /\ ~C12_InContext(key)
                  => required_keys[key] = None

\* One call with a key all three sources hold, a key only the step and the
\* context hold, and a key none of them holds.
C12_Witness ==
    /\ pc = "resolved"
    /\ "file_name" \in DOMAIN file_record /\ "file_name" \in DOMAIN CurrentStep
    /\ C12_InContext("file_name") /\ required_keys["file_name"] = "from file_record"
    /\ "workflowStepId" \notin DOMAIN file_record
    /\ "workflowStepId" \in DOMAIN CurrentStep /\ C12_InContext("workflowStepId")
    /\ required_keys["workflowStepId"] = "from step"
    /\ "templateFileParseId" \notin DOMAIN file_record
    /\ "templateFileParseId" \notin DOMAIN CurrentStep
    /\ ~C12_InContext("templateFileParseId")
    /\ required_keys["templateFileParseId"] = None

-----------------------------------------------------------------------------
(* The stop endpoint (routers/api_file_processor.py stop), asked to stop a
   task whose record in the bookkeeping store is drawn from bounded sets. *)

\* The step records a task may have in the bookkeeping store
StoredSteps ==
    UNION {[{StepIds[i] : i \in 1..n} -> {PROCESSING, SUCCESS, FAILED}] : n \in 0..MaxSteps}

StopInit ==
    /\ workflowSteps = <<>>
    /\ tracking_model = [request_id |-> "run-1", rerun_step_id |-> None]
    /\ file_record = [file_path |-> "raw/po.csv", file_name |-> "po.csv",
                      file_name_wo_ext |-> "po", file_size |-> "1 KB",
                      document_type |-> "order",
                      target_bucket_name |-> "target-bucket"]
    /\ processor = AllFunctions
    /\ persisted = "absent"
    /\ pc = "no task"
    /\ full_sorted_steps = <<>>
    /\ sorted_steps = <<>>
    /\ step_index = 1
    /\ step_result = Unbound
    /\ status_step_result = TRUE
    /\ processing_steps = <<>>
    /\ step_detail = <<>>
    /\ kwargs = [k \in Range(RegistryKeys) |-> PROCESS_DEFINITIONS[k].kwargs]
    /\ epc = "idle"
    /\ step_name = NoName
    /\ prev_step = NoStep
    /\ required_keys = <<>>
    /\ response = RespNone
    /\ ctx_api_records = <<>>
    /\ ctx_index = 1
    /\ error = None
    /\ \E status \in {"absent"} \cup StatusEnum, steps \in StoredSteps :
          redis = [run |-> status, steps |-> steps]
    /\ s3 = <<>>
    /\ session = "started"
    /\ started = <<>>
    /\ executed = <<>>
    /\ finished = <<>>
    /\ be_calls = <<>>
    /\ fn_calls = <<>>
    /\ at_call = [processing_steps |-> <<>>, hydrated |-> None, found |-> None,
                  required_keys |-> <<>>, local_done |-> FALSE, failed_call |-> 0,
                  invoked |-> FALSE, plan_stopped |-> 0]
    /\ \E context \in {"stored", "fallback"} :
          stop = [StopIdle(context) EXCEPT !.pc = "lookup"]
    /\ runs = <<>>

\* A rejection that only turns away a task without a record.
StopRejection_OnlyMissing(celery_task) ==
    IF celery_task.run = "absent" THEN 404 ELSE 0

\* Lines 137-163: the response that turns the request away (0: none): 404
\* for a task without a record, 500 for one whose status is not PROCESSING.
StopRejection(celery_task) ==
    IF celery_task.run = "absent" THEN 404
    ELSE IF celery_task.run # PROCESSING THEN 500
    ELSE 0

\* Lines 130-166: the task and its steps are read; the request is turned away
\* or the Celery task is revoked.
StopLookup ==
    /\ stop.pc = "lookup"
    /\ IF StopRejection(redis) # 0
       THEN stop' = [stop EXCEPT !.status_code = StopRejection(redis),
                                 !.pc = "stopped"]
       ELSE stop' = [stop EXCEPT !.revoked = TRUE,
                                 !.pending = SelectSeq(StepIds,
                                                 LAMBDA id : id \in DOMAIN redis.steps),
                                 !.pc = "steps"]
    /\ UNCHANGED <<input_vars, runs, task_vars, context_vars, kwargs, exec_vars,
                   external_vars, history_vars>>

\* Lines 197-226: one round of the loop over the task's steps. For a step
\* recorded as PROCESSING the key prefix is computed and the step-finish call
\* sent with code CANCEL; indexing the empty step_detail of the fallback
\* context raises before the call, and the except clause answers 500.
StopStepFinish ==
    /\ stop.pc = "steps"
    /\ stop.pending # <<>>
    /\ LET id == Head(stop.pending)
       IN IF redis.steps[id] # PROCESSING
          THEN /\ stop' = [stop EXCEPT !.pending = Tail(@)]
               /\ UNCHANGED finished
          ELSE IF stop.context_data = "fallback"
          THEN /\ stop' = [stop EXCEPT !.status_code = 500,
                                       !.s3_key_prefix =
                                           get_s3_key_prefix([workflowStepId |-> id]),
                                       !.pc = "stopped"]
               /\ UNCHANGED finished
          ELSE /\ stop' = [stop EXCEPT !.pending = Tail(@),
                                       !.s3_key_prefix =
                                           get_s3_key_prefix([workflowStepId |-> id])]
               /\ finished' = Append(finished,
                                     [step |-> id, code |-> CANCEL,
                                      messages |-> {<<"manually canceled by the user">>}])
    /\ UNCHANGED <<input_vars, runs, task_vars, context_vars, kwargs, exec_vars,
                   external_vars, started, executed, be_calls, fn_calls, at_call>>

\* Lines 229-242: the session-finish call with code CANCEL; recording it on
\* the workflow_detail of the fallback context (None) raises.
StopSessionFinish ==
    /\ stop.pc = "steps"
    /\ stop.pending = <<>>
    /\ session' = CANCEL
    /\ IF stop.context_data = "fallback"
       THEN stop' = [stop EXCEPT !.status_code = 500, !.pc = "stopped"]
       ELSE stop' = [stop EXCEPT !.pc = "store"]
    /\ UNCHANGED <<input_vars, runs, task_vars, context_vars, kwargs, exec_vars, redis, s3,
                   history_vars>>

\* Lines 260-303: a CANCEL StepOutput is written under the last prefix
\* computed (None when no step was PROCESSING); a failed write is only
\* logged, a raising one answered with 500.
StopStore ==
    /\ stop.pc = "store"
    /\ LET message == "Revoked Celery task"
           step_output ==
               StepOutput(Model(("items" :> "[]") @@ ("step_status" :> CANCEL)
                                @@ ("messages" :> message)
                                @@ ("json_output" :> stop.s3_key_prefix)),
                          CANCEL, {<<message>>})
       IN \E written \in WriteOutcomes :
             /\ s3' = S3Write(stop.s3_key_prefix, step_output, FALSE, written)
             /\ stop' = [stop EXCEPT !.status_code =
                                         IF written = "raised" THEN 500 ELSE 200,
                                     !.pc = "stopped"]
    /\ UNCHANGED <<input_vars, runs, task_vars, context_vars, kwargs, exec_vars, redis,
                   session, history_vars>>

StopNext ==
    \/ StopLookup
    \/ StopStepFinish
    \/ StopSessionFinish
    \/ StopStore

SpecStop == StopInit /\ [][StopNext]_vars

\* C16: once the stop endpoint has handled a task recorded as PROCESSING, the
\* bookkeeping store records the run and its PROCESSING step as cancelled:
\* neither is recorded as PROCESSING any more.
C16_StopMarksCancelled ==
    (stop.pc = "stopped" /\ stop.revoked)
        => /\ redis.run = CANCEL
           /\ \A id \in DOMAIN redis.steps : redis.steps[id] # PROCESSING

\* C17: a stop request for a task without a record is answered 404 and one
\* for a task whose status is not PROCESSING with an error; in both cases
\* nothing is revoked and no step-finish or session-finish call is sent.
C17_StopRejectsUnknownOrFinished ==
    (stop.pc # "lookup" /\ redis.run # PROCESSING)
        => /\ stop.pc = "stopped"
           /\ stop.status_code = IF redis.run = "absent" THEN 404 ELSE 500
           /\ ~stop.revoked
           /\ finished = <<>>
           /\ session = "started"
           /\ s3 = <<>>

\* A finished task with step records was turned away.
C17_Witness ==
    /\ stop.pc = "stopped"
    /\ redis.run = SUCCESS
    /\ DOMAIN redis.steps # {}
    /\ stop.status_code = 500
    /\ ~stop.revoked

-----------------------------------------------------------------------------
(* Two runs on two workers, sharing the target bucket: the writes each run
   hands to object storage, in every interleaving. *)

RunIds == {"run-1", "run-2"}

\* utils/bucket_helper.py get_s3_key_prefix with its file record and tracking
\* model: the parts of the key, in order. date_str is the UTC date of the
\* clock when the function is evaluated; without is_full_prefix the object
\* name is left out (for a step the registry knows).
S3KeyPartsAt(record, tracking, step, date_str, is_full_prefix) ==
    LET step_config_found == get_step_name(step.stepName) # NoName
        prefix_part == IF record.document_type = "master_data"
                       THEN <<record.file_name_wo_ext>>
                       ELSE <<record.folder_name, record.customer_foldername>>
        object_name == IF tracking.rerun_attempt # None
                       THEN <<record.file_name_wo_ext, "rerun", tracking.rerun_attempt, "json">>
                       ELSE <<record.file_name_wo_ext, "json">>
        folders == << IF step_config_found THEN "target_store_data"
                      ELSE "workflow-node-materialized",
                      prefix_part, date_str, tracking.request_id,
                      <<step.stepOrder, step.stepName>> >>
    IN IF step_config_found /\ ~is_full_prefix THEN folders
       ELSE Append(folders, object_name)

\* The full prefix on one day ("today" for both runs).
S3KeyParts(record, tracking, step) ==
    S3KeyPartsAt(record, tracking, step, "today", TRUE)

\* write_raw_to_s3.py lines 17-18 and 29-51: the key of the raw copy, and
\* the key of the versioned copy for the version number computed from the
\* versioning keys listed in the bucket.
RawKey(record) == <<"master_data", record.file_name_wo_ext, record.file_name>>
VersionNumber(record, bucket) ==
    LET numbers == {bucket[i].key[3] : i \in {j \in DOMAIN bucket :
                        /\ bucket[j].key[1] = "versioning"
                        /\ bucket[j].key[2] = record.file_name_wo_ext}}
    IN IF numbers = {} THEN 1
       ELSE (CHOOSE n \in numbers : \A m \in numbers : m <= n) + 1
VersionKey(record, version_number) ==
    <<"versioning", record.file_name_wo_ext, version_number, record.file_name>>

TwoRunsInit ==
    /\ workflowSteps = <<>>
    /\ tracking_model = [request_id |-> "run-1", rerun_step_id |-> None]
    /\ file_record = [file_path |-> "raw/po.csv", file_name |-> "po.csv",
                      file_name_wo_ext |-> "po", file_size |-> "1 KB",
                      document_type |-> "order",
                      target_bucket_name |-> "target-bucket"]
    /\ processor = AllFunctions
    /\ persisted = "absent"
    /\ pc = "runs"
    /\ full_sorted_steps = <<>>
    /\ sorted_steps = <<>>
    /\ step_index = 1
    /\ step_result = Unbound
    /\ status_step_result = TRUE
    /\ processing_steps = <<>>
    /\ step_detail = <<>>
    /\ kwargs = [k \in Range(RegistryKeys) |-> PROCESS_DEFINITIONS[k].kwargs]
    /\ epc = "idle"
    /\ step_name = NoName
    /\ prev_step = NoStep
    /\ required_keys = <<>>
    /\ response = RespNone
    /\ ctx_api_records = <<>>
    /\ ctx_index = 1
    /\ error = None
    /\ redis = [run |-> PROCESSING, steps |-> <<>>]
    /\ s3 = <<>>
    /\ session = "started"
    /\ started = <<>>
    /\ executed = <<>>
    /\ finished = <<>>
    /\ be_calls = <<>>
    /\ fn_calls = <<>>
    /\ at_call = [processing_steps |-> <<>>, hydrated |-> None, found |-> None,
                  required_keys |-> <<>>, local_done |-> FALSE, failed_call |-> 0,
                  invoked |-> FALSE, plan_stopped |-> 0]
    /\ stop = StopIdle("stored")
    /\ \E inputs \in [RunIds ->
          {[pc |-> "store_output", step_index |-> 1, version_number |-> 0,
            tracking_model |-> [request_id |-> None, rerun_attempt |-> None],
            file_record |-> [file_name |-> name[1], file_name_wo_ext |-> name[2],
                             document_type |-> document_type,
                             folder_name |-> "folder",
                             customer_foldername |-> "customer"],
            sorted_steps |-> MakeSteps(names, 0)] :
              name \in {<<"materials.csv", "materials">>, <<"plants.csv", "plants">>},
              document_type \in DocumentType,
              names \in {<<TEMPLATE_FILE_PARSE>>, <<FILE_PARSE, CUSTOMER_SUBMIT>>}}] :
          runs = [r \in RunIds |-> [inputs[r] EXCEPT !.tracking_model.request_id = r]]

RunUnchanged ==
    UNCHANGED <<input_vars, stop, task_vars, context_vars, kwargs, exec_vars, redis,
                session, history_vars>>

\* handle_task lines 243-249: the output of the run's current step is written
\* under its key prefix; the loop goes to the next step or ends.
RunStoreStepOutput(r) ==
    /\ runs[r].pc = "store_output"
    /\ LET run == runs[r]
           step == run.sorted_steps[run.step_index]
       IN /\ s3' = S3Write(S3KeyParts(run.file_record, run.tracking_model, step),
                         r, FALSE, "Success")
          /\ runs' = [runs EXCEPT ![r] =
                         IF run.step_index < Len(run.sorted_steps)
                         THEN [run EXCEPT !.step_index = @ + 1]
                         ELSE [run EXCEPT !.pc = "final_store"]]
    /\ RunUnchanged

\* handle_task lines 265-272, store_data_in_s3: the last result is written
\* again; save_raw for a master-data document.
RunFinalStore(r) ==
    /\ runs[r].pc = "final_store"
    /\ LET run == runs[r]
           step == run.sorted_steps[run.step_index]
       IN /\ s3' = S3Write(S3KeyParts(run.file_record, run.tracking_model, step),
                         r, FALSE, "Success")
          /\ runs' = [runs EXCEPT ![r].pc =
                         IF run.file_record.document_type = "master_data"
                         THEN "copy_raw" ELSE "done"]
    /\ RunUnchanged

\* write_raw_to_s3 lines 17-27: the raw file is copied to the target bucket.
RunCopyRaw(r) ==
    /\ runs[r].pc = "copy_raw"
    /\ s3' = S3Write(RawKey(runs[r].file_record), r, FALSE, "Success")
    /\ runs' = [runs EXCEPT ![r].pc = "list_versions"]
    /\ RunUnchanged

\* write_raw_to_s3 lines 29-48: the versioning keys are listed and the next
\* version number computed.
RunListVersions(r) ==
    /\ runs[r].pc = "list_versions"
    /\ runs' = [runs EXCEPT ![r].pc = "copy_version",
                            ![r].version_number = VersionNumber(runs[r].file_record, s3)]
    /\ UNCHANGED s3
    /\ RunUnchanged

\* write_raw_to_s3 lines 50-59: the raw file is copied to the version folder.
RunCopyVersion(r) ==
    /\ runs[r].pc = "copy_version"
    /\ s3' = S3Write(VersionKey(runs[r].file_record, runs[r].version_number), r, FALSE,
                  "Success")
    /\ runs' = [runs EXCEPT ![r].pc = "done"]
    /\ RunUnchanged

TwoRunsNext ==
    \E r \in RunIds :
        \/ RunStoreStepOutput(r)
        \/ RunFinalStore(r)
        \/ RunCopyRaw(r)
        \/ RunListVersions(r)
        \/ RunCopyVersion(r)

SpecTwoRuns == TwoRunsInit /\ [][TwoRunsNext]_vars

\* C20: two runs with different request_id never write the same
\* object-storage key, whatever the interleaving: neither the step outputs
\* nor the raw-file and versioning copies of a master-data file.
C20_RunsWriteDistinctKeys ==
    \A i, j \in DOMAIN s3 :
        s3[i].object # s3[j].object => s3[i].key # s3[j].key

(***************************************************************************)
(* Properties of the step output of a failed step                          *)
(***************************************************************************)

\* handle_task has ended after a step whose execute_step result was FAILED
StoppedAtFailedStep ==
    /\ pc \in {"done", "raised"}
    /\ executed # <<>>
    /\ step_result # Unbound
    /\ step_result.step_status = FAILED

\* The writes that carry the failed step's output: its status and its
\* failure messages, under the key of that step and of no other step.
FailedOutputWrites ==
    { i \in DOMAIN s3 :
        /\ s3[i].key = get_s3_key_prefix(CurrentStep)
        /\ \A j \in DOMAIN sorted_steps :
              j # step_index => s3[i].key # get_s3_key_prefix(sorted_steps[j])
        /\ s3[i].object.step_status = FAILED
        /\ s3[i].object.step_failure_message = step_result.step_failure_message }

MaxWords == 3

NameWords ==
    UNION { Range(RegistryKeys[i]) : i \in DOMAIN RegistryKeys } \cup {"CUSTOMER", "3"}

RECURSIVE StepNames(_)
StepNames(n) ==
    IF n = 0 THEN {<<>>}
    ELSE StepNames(n - 1) \cup
         { Append(name, w) : name \in {m \in StepNames(n - 1) : Len(m) = n - 1},
                             w \in NameWords }

LookupInit ==
    /\ \E name \in StepNames(MaxWords) \ {<<>>} :
          workflowSteps = <<WorkflowStep(StepIds[1], name, 0)>>
    /\ tracking_model = [request_id |-> "run-1", rerun_step_id |-> None]
    /\ file_record = [file_path |-> "raw/po.csv", file_name |-> "po.csv",
                      file_name_wo_ext |-> "po", file_size |-> "1 KB",
                      document_type |-> "order",
                      target_bucket_name |-> "target-bucket"]
    /\ processor = AllFunctions
    /\ persisted = "absent"
    /\ pc = "execute"
    /\ full_sorted_steps = workflowSteps
    /\ sorted_steps = workflowSteps
    /\ step_index = 1
    /\ step_result = Unbound
    /\ status_step_result = TRUE
    /\ processing_steps = <<>>
    /\ step_detail = <<>>
    /\ kwargs = [k \in Range(RegistryKeys) |-> PROCESS_DEFINITIONS[k].kwargs]
    /\ epc = "lookup"
    /\ step_name = NoName
    /\ prev_step = NoStep
    /\ required_keys = <<>>
    /\ response = RespNone
    /\ ctx_api_records = <<>>
    /\ ctx_index = 1
    /\ error = None
    /\ redis = [run |-> PROCESSING, steps |-> <<>>]
    /\ s3 = <<>>
    /\ session = "started"
    /\ started = <<>>
    /\ executed = <<>>
    /\ finished = <<>>
    /\ be_calls = <<>>
    /\ fn_calls = <<>>
    /\ at_call = [processing_steps |-> <<>>, hydrated |-> None, found |-> None,
                  required_keys |-> <<>>, local_done |-> FALSE, failed_call |-> 0,
                  invoked |-> FALSE, plan_stopped |-> 0]
    /\ stop = StopIdle("stored")
    /\ runs = <<>>

SpecLookup == LookupInit /\ [][ExecLookup]_vars

\* C22: get_step_name maps every registry key to itself, also a key whose
\* text ends with the suffix of a dynamic key, so the lookup of a registry
\* key's canonical name finds its StepDefinition.
C22_RegistryKeyMapsToItself ==
    (pc = "execute" /\ epc # "lookup" /\ IsRegistered(CurrentStep.stepName)) =>
        /\ step_name = CurrentStep.stepName
        /\ epc = "hydrate"

\* the lookup was given the dynamic key itself, which ends with its own suffix
C22_Witness ==
    /\ pc = "execute" /\ epc = "hydrate"
    /\ IsDynamicKey(CurrentStep.stepName)
    /\ IsRegistered(CurrentStep.stepName)
    /\ step_name = CurrentStep.stepName

(***************************************************************************)
(* Properties of the call trace                                            *)
(***************************************************************************)

\* execute_step returned FAILED after its call plan stopped at an entry
\* because of a failure, with at least one call record collected
PlanStoppedWithRecords ==
    /\ pc = "store_status"
    /\ at_call.plan_stopped # 0
    /\ step_result.step_status = FAILED
    /\ ctx_api_records # <<>>

\* C23: when a step's call plan stops because of a failure after k entries
\* completed, the k call records collected so far are in
\* step_detail[stepOrder].config_api when execute_step returns FAILED.
C23_PartialTraceStored ==
    PlanStoppedWithRecords =>
        step_detail[CurrentStep.stepOrder + 1].config_api = {ctx_api_records}

\* C24: after a step's call plan completes, its call trace holds exactly one
\* record per executed plan entry, in declared order: for an HTTP entry the
\* URL path, the method, the request and the response; for a local entry
\* the method name and an empty URL.
C24_TraceOneRecordPerEntry ==
    (pc = "execute" /\ epc = "function") =>
        /\ Len(ctx_api_records) = Len(Plan)
        /\ \A i \in DOMAIN Plan :
              /\ i \in DOMAIN ctx_api_records
              /\ DOMAIN ctx_api_records[i] = {"url", "method", "request", "response"}
              /\ IF Plan[i].url.base = ""
                 THEN /\ ctx_api_records[i].url.base = ""
                      /\ ctx_api_records[i].method = Plan[i].method
                 ELSE /\ ctx_api_records[i].url.base = Plan[i].url.base
                      /\ ctx_api_records[i].method = Upper(Plan[i].method)

(***************************************************************************)
(* fill_required_keys_from_response alone, as run_function calls it on the *)
(* kwargs of a step's definition: any dict of required keys with None or   *)
(* earlier values, any response of dicts with at most MaxItems list items. *)
(***************************************************************************)
MaxItems == 2

FillKeys == <<"connectionDto", "fileOutputLink">>
FillFields == {"connectionDto", "fileOutputLink", "success"}

\* the dicts `required` may be: some of FillKeys, each None or already set
RequiredDicts ==
    { SelectSeq([i \in DOMAIN FillKeys |-> [key |-> FillKeys[i], value |-> v[i]]],
                LAMBDA e : e.value # "absent") :
        v \in [DOMAIN FillKeys -> {"absent", None, "kept"}] }

ResponseDicts ==
    { [f \in fields |-> value] : fields \in SUBSET FillFields, value \in {"new", "newer"} }

RECURSIVE ResponseLists(_)
ResponseLists(n) ==
    IF n = 0 THEN {<<>>}
    ELSE ResponseLists(n - 1) \cup
         { Append(l, d) : l \in {m \in ResponseLists(n - 1) : Len(m) = n - 1},
                          d \in ResponseDicts }

FillInit ==
    /\ workflowSteps = <<WorkflowStep(StepIds[1], TEMPLATE_PUBLISH_DATA, 0)>>
    /\ tracking_model = [request_id |-> "run-1", rerun_step_id |-> None]
    /\ file_record = [file_path |-> "raw/po.csv", file_name |-> "po.csv",
                      file_name_wo_ext |-> "po", file_size |-> "1 KB",
                      document_type |-> "order",
                      target_bucket_name |-> "target-bucket"]
    /\ processor = AllFunctions
    /\ persisted = "absent"
    /\ pc = "fill"
    /\ full_sorted_steps = workflowSteps
    /\ sorted_steps = workflowSteps
    /\ step_index = 1
    /\ step_result = Unbound
    /\ status_step_result = TRUE
    /\ processing_steps = <<>>
    /\ step_detail = <<>>
    /\ \E required \in RequiredDicts :
          /\ kwargs = [k \in Range(RegistryKeys) |->
                         IF k = TEMPLATE_PUBLISH_DATA THEN required
                         ELSE PROCESS_DEFINITIONS[k].kwargs]
          /\ at_call = [processing_steps |-> <<>>, hydrated |-> None, found |-> None,
                        required_keys |-> required, local_done |-> FALSE,
                        failed_call |-> 0, invoked |-> FALSE, plan_stopped |-> 0]
    /\ epc = "idle"
    /\ step_name = TEMPLATE_PUBLISH_DATA
    /\ prev_step = NoStep
    /\ required_keys = <<>>
    /\ response \in {RespNone} \cup {RespDict(d) : d \in ResponseDicts}
                        \cup {RespList(l) : l \in ResponseLists(MaxItems)}
    /\ ctx_api_records = <<>>
    /\ ctx_index = 1
    /\ error = None
    /\ redis = [run |-> PROCESSING, steps |-> <<>>]
    /\ s3 = <<>>
    /\ session = "started"
    /\ started = <<>>
    /\ executed = <<>>
    /\ finished = <<>>
    /\ be_calls = <<>>
    /\ fn_calls = <<>>
    /\ stop = StopIdle("stored")
    /\ runs = <<>>

\* run_function line: kwargs = fill_required_keys_from_response(response,
\* step_config.kwargs)
FillCall ==
    /\ pc = "fill"
    /\ kwargs' = [kwargs EXCEPT ![step_name] =
                     fill_required_keys_from_response(response, @)]
    /\ pc' = "filled"
    /\ UNCHANGED <<input_vars, stop, runs, full_sorted_steps, sorted_steps, step_index,
                   step_result, status_step_result, context_vars, exec_vars,
                   external_vars, history_vars>>

SpecFill == FillInit /\ [][FillCall]_vars

\* the names of the fields of the response
ResponseFieldNames ==
    CASE response.kind = "dict" -> DOMAIN response.fields
      [] response.kind = "list" ->
            UNION {DOMAIN response.items[i] : i \in DOMAIN response.items}
      [] OTHER -> {}

\* C25: fill_required_keys_from_response changes only keys whose current
\* value is None and whose name is a field of the response; a key that
\* already holds a non-None value keeps it, and no key is added.
C25_FillsOnlyNoneKeys ==
    pc = "filled" =>
        LET before == at_call.required_keys
            after == kwargs[step_name]
        IN /\ Len(after) = Len(before)
           /\ \A i \in DOMAIN before :
                 /\ after[i].key = before[i].key
                 /\ after[i].value # before[i].value =>
                       /\ before[i].value = None
                       /\ before[i].key \in ResponseFieldNames

(***************************************************************************)
(* A run writes a step's output; later (the clock may pass midnight, at    *)
(* most MaxDays times) a rerun of the same file under the same request id  *)
(* lists the stored outputs of that step for hydration.                    *)
(***************************************************************************)
MaxDays == 2

RerunKeyInit ==
    /\ \E name \in {TEMPLATE_FILE_PARSE, TEMPLATE_DATA_MAPPING, CUSTOMER_SUBMIT},
          base \in OrderBases :
          workflowSteps = <<WorkflowStep(StepIds[1], name, base)>>
    /\ \E attempt \in {"1", "2"} :
          tracking_model = [request_id |-> "run-1", rerun_step_id |-> StepIds[2],
                            rerun_attempt |-> attempt]
    /\ \E name \in {<<"materials.csv", "materials">>, <<"plants.csv", "plants">>},
          document_type \in DocumentType :
          file_record = [file_name |-> name[1], file_name_wo_ext |-> name[2],
                         document_type |-> document_type, folder_name |-> "folder",
                         customer_foldername |-> "customer",
                         target_bucket_name |-> "target-bucket"]
    /\ processor = AllFunctions
    /\ persisted = "absent"
    /\ pc = "original_store"
    /\ full_sorted_steps = workflowSteps
    /\ sorted_steps = workflowSteps
    /\ step_index = 1
    /\ step_result = Unbound
    /\ status_step_result = TRUE
    /\ processing_steps = <<>>
    /\ step_detail = <<>>
    /\ kwargs = [k \in Range(RegistryKeys) |-> PROCESS_DEFINITIONS[k].kwargs]
    /\ epc = "idle"
    /\ step_name = NoName
    /\ prev_step = NoStep
    /\ required_keys = <<>>
    /\ response = RespNone
    /\ ctx_api_records = <<>>
    /\ ctx_index = 1
    /\ error = None
    /\ redis = [run |-> PROCESSING, steps |-> <<>>]
    /\ s3 = <<>>
    /\ session = "started"
    /\ started = <<>>
    /\ executed = <<>>
    /\ finished = <<>>
    /\ be_calls = <<>>
    /\ fn_calls = <<>>
    /\ at_call = [processing_steps |-> <<>>, hydrated |-> None, found |-> None,
                  required_keys |-> <<>>, local_done |-> FALSE, failed_call |-> 0,
                  invoked |-> FALSE, plan_stopped |-> 0]
    /\ stop = StopIdle("stored")
    /\ runs = [date |-> 0, listed |-> <<>>]

RerunKeyUnchanged ==
    UNCHANGED <<input_vars, stop, full_sorted_steps, sorted_steps, step_index,
                step_result, status_step_result, context_vars, kwargs, exec_vars,
                redis, session, history_vars>>

\* datetime.now(timezone.utc) moves on to the next day
Midnight ==
    /\ pc \in {"original_store", "rerun_hydrate"}
    /\ runs.date < MaxDays
    /\ runs' = [runs EXCEPT !.date = @ + 1]
    /\ UNCHANGED <<pc, s3>>
    /\ RerunKeyUnchanged

\* handle_task lines 213 and 243-249 of the original run (no rerun attempt):
\* the step's output is written under the prefix computed then.
OriginalStore ==
    /\ pc = "original_store"
    /\ s3' = S3Write(S3KeyPartsAt(file_record,
                                  [tracking_model EXCEPT !.rerun_attempt = None],
                                  CurrentStep, runs.date, TRUE),
                     SUCCESS, FALSE, "Success")
    /\ pc' = "rerun_hydrate"
    /\ UNCHANGED runs
    /\ RerunKeyUnchanged

\* write_json_to_s3.py get_step_result_from_s3 lines 61-70 in the rerun: the
\* prefix is computed again, without the object name, and listed.
RerunList ==
    /\ pc = "rerun_hydrate"
    /\ runs' = [runs EXCEPT !.listed =
                    S3KeyPartsAt(file_record, tracking_model, CurrentStep, runs.date,
                                 FALSE)]
    /\ pc' = "rerun_listed"
    /\ UNCHANGED s3
    /\ RerunKeyUnchanged

RerunKeyNext == Midnight \/ OriginalStore \/ RerunList

SpecRerunKey == RerunKeyInit /\ [][RerunKeyNext]_vars

\* list_objects_with_prefix: the key begins with the prefix
HasPrefix(key, prefix) ==
    Len(prefix) <= Len(key) /\ SubSeq(key, 1, Len(prefix)) = prefix

\* C26: the storage prefix of a step's output is determined by the file, the
\* step and the run id, whatever the time it is computed at; so the prefix
\* the rerun's hydration lists is the prefix under which the original run
\* wrote the step's output.
C26_RerunListsOriginalPrefix ==
    pc = "rerun_listed" =>
        \A i \in DOMAIN s3 : HasPrefix(s3[i].key, runs.listed)

(***************************************************************************)
(* Properties of the registry, of rerun hydration and of the run status    *)
(***************************************************************************)

\* C27: execute_step and run_function leave every StepDefinition of the
\* registry as it was declared, its kwargs in particular, so what a function
\* receives does not depend on the runs the process executed before.
C27_RegistryUnchanged ==
    \A k \in Range(RegistryKeys) : kwargs[k] = PROCESS_DEFINITIONS[k].kwargs

\* The output keys of the steps before the rerun target that the registry
\* knows
EarlierOutputKeys ==
    { PROCESS_DEFINITIONS[get_step_name(full_sorted_steps[i].stepName)].data_output :
        i \in { j \in DOMAIN full_sorted_steps :
                  /\ full_sorted_steps[j].stepOrder < RerunTarget.stepOrder
                  /\ IsRegistered(get_step_name(full_sorted_steps[j].stepName)) } }
        \ {None}

\* C28: on a rerun targeting step N whose earlier steps all have persisted
\* SUCCESS outputs, the output key of every earlier step is in the processing
\* context when N's function runs, not only the key of N's input producer.
C28_AllEarlierOutputsHydrated ==
    (/\ IsRerun
     /\ persisted = SUCCESS
     /\ fn_calls # <<>>
     /\ fn_calls[1].step = RerunTarget.stepOrder) =>
        EarlierOutputKeys \subseteq fn_calls[1].keys

(***************************************************************************)
(* The stop endpoint and the worker on one run: handle_task has left its   *)
(* step loop when the stop request for the run arrives; the steps of the   *)
(* endpoint and of the worker interleave.                                  *)
(***************************************************************************)

StopRaceInit ==
    /\ workflowSteps = MakeSteps(<<TEMPLATE_FILE_PARSE>>, 0)
    /\ tracking_model = [request_id |-> "run-1", rerun_step_id |-> None]
    /\ \E document_type \in DocumentType :
          file_record = [file_path |-> "raw/po.csv", file_name |-> "po.csv",
                         file_name_wo_ext |-> "po", file_size |-> "1 KB",
                         document_type |-> document_type,
                         target_bucket_name |-> "target-bucket"]
    /\ processor = AllFunctions
    /\ persisted = "absent"
    /\ pc = "finish"
    /\ full_sorted_steps = workflowSteps
    /\ sorted_steps = workflowSteps
    /\ step_index = 1
    /\ step_result \in {out \in BusinessOutputs : out.data.kind = "model"}
    /\ status_step_result = StepSucceeded(step_result)
    /\ processing_steps = <<>>
    /\ step_detail = <<>>
    /\ kwargs = [k \in Range(RegistryKeys) |-> PROCESS_DEFINITIONS[k].kwargs]
    /\ epc = "idle"
    /\ step_name = TEMPLATE_FILE_PARSE
    /\ prev_step = NoStep
    /\ required_keys = <<>>
    /\ response = RespNone
    /\ ctx_api_records = <<>>
    /\ ctx_index = 1
    /\ error = None
    /\ redis = [run |-> PROCESSING,
                steps |-> (CurrentStep.workflowStepId :> step_result.step_status)]
    /\ s3 = <<>>
    /\ session = "started"
    /\ started = <<>>
    /\ executed = <<[step |-> CurrentStep.stepOrder, status |-> step_result.step_status,
                     by_exception |-> FALSE]>>
    /\ finished = <<>>
    /\ be_calls = <<>>
    /\ fn_calls = <<>>
    /\ at_call = [processing_steps |-> <<>>, hydrated |-> None, found |-> None,
                  required_keys |-> <<>>, local_done |-> FALSE, failed_call |-> 0,
                  invoked |-> FALSE, plan_stopped |-> 0]
    /\ \E context \in {"stored", "fallback"} :
          stop = [StopIdle(context) EXCEPT !.pc = "lookup"]
    /\ runs = <<>>

\* api_file_processor.py line 166, revoke(terminate=True, signal="SIGKILL"):
\* the worker process running the task is killed when the revoke reaches it,
\* wherever handle_task is; a task that has ended is not affected.
WorkerKilled ==
    /\ stop.revoked
    /\ pc \in {"finish", "session_finish", "final_store", "except"}
    /\ pc' = "killed"
    /\ UNCHANGED <<input_vars, stop, runs, full_sorted_steps, sorted_steps, step_index,
                   step_result, status_step_result, context_vars, kwargs, exec_vars,
                   external_vars, history_vars>>

StopRaceNext ==
    \/ FinishRun
    \/ SessionFinish
    \/ FinalStore
    \/ Except
    \/ WorkerKilled
    \/ StopLookup
    \/ StopStepFinish
    \/ StopSessionFinish
    \/ StopStore

SpecStopRace == StopRaceInit /\ [][StopRaceNext]_vars

\* C29: for one run, in every interleaving of the stop endpoint with
\* handle_task, the backend receives at most one session-finish: once the
\* session was finished by the worker (SUCCESS or FAILED) or by the stop
\* endpoint (CANCEL), no session-finish from the other follows.
C29_OneSessionFinish ==
    [][session # "started" => session' = session]_vars

\* C30: once handle_task has stored the run as PROCESSING, whenever it ends
\* the stored run status is no longer PROCESSING: it is the status of the
\* last executed step when handle_task returns, and FAILED when an exception
\* left it (also for a workflow with no step to execute).
C30_RunStatusLeavesProcessing ==
    /\ pc = "done" => /\ executed # <<>>
                      /\ redis.run = LastExecuted.status
                      /\ redis.run \in {SUCCESS, FAILED}
    /\ pc = "raised" => redis.run = FAILED

\* A rerun whose slice of the workflow is empty executes no step: the read of
\* the unbound step_result raises and the run is stored as FAILED.
C30_Witness ==
    /\ pc = "raised"
    /\ IsRerun
    /\ sorted_steps = <<>>
    /\ executed = <<>>
    /\ step_result = Unbound
    /\ redis.run = FAILED
====
